---- MODULE Spec2Model ----
(***************************************************************************)
(* SkyCast weather dashboard: the retry wrapper and the exported functions *)
(* of the generative-AI client (services/geminiService.ts), the news       *)
(* functions of its earlier versions, and the App component: the           *)
(* fetch/cache glue of App.tsx (the version with the history panel) with   *)
(* the preferences, the consent banner and the purge of the version that   *)
(* has them.                                                               *)
(*                                                                         *)
(* Time is in milliseconds, as Date.now() and setTimeout count it.         *)
(* Coordinates are in hundredths of a degree.                              *)
(***************************************************************************)
EXTENDS Integers, Sequences, FiniteSets, TLC

(***************************************************************************)
(* Bounds of the model.                                                    *)
(***************************************************************************)
MaxRetries == 4
MaxLoads == 3
MaxTicks == 3
MaxPending == 1
MaxTenths == 60
MaxChunks == 5

(***************************************************************************)
(* withRetry (services/geminiService.ts)                                   *)
(***************************************************************************)
VARIABLES
    now,        \* the clock: Date.now() / the timer clock
    pc,         \* where the withRetry activation is: "fn", "sleep", "resolved", "rejected"
    retries,    \* parameter retries of the current recursion level
    delay,      \* parameter delay of the current recursion level
    args,       \* the arguments of the outermost withRetry call
    calls,      \* how many times fn has been called
    running,    \* how many calls of fn are in flight
    waits,      \* the delays passed to setTimeout, in order
    timerDue,   \* when the pending setTimeout fires
    startAt,    \* when fn was last called
    failAt,     \* when fn last failed
    lastErr,    \* the error fn last failed with
    fnValue,    \* the value fn resolved with
    settled     \* how the promise of the outermost withRetry settled

retryVars == <<pc, retries, delay, args, calls, running, waits, timerDue,
               startAt, failAt, lastErr, fnValue, settled>>

(***************************************************************************)
(* The App component (App.tsx) and the browser around it                   *)
(***************************************************************************)
VARIABLES
    mounted,            \* whether the start-up effect has run in this page load
    weather,            \* useState weather
    loading,            \* useState loading
    error,              \* useState error
    aiInsight,          \* useState aiInsight
    isAiLoading,        \* useState isAiLoading
    historyEvents,      \* useState historyEvents
    isHistoryLoading,   \* useState isHistoryLoading
    defaultLocation,    \* useState defaultLocation
    storage,            \* localStorage
    geoSupported,       \* whether navigator.geolocation exists
    wxInFlight,         \* loadWeather activations awaiting fetchWeather
    aiInFlight,         \* updateAiInsight activations awaiting getAIInsight
    histInFlight,       \* updateHistory activations awaiting fetchHistoryOnThisDay
    geoPending,         \* getCurrentPosition requests awaiting their callback
    revPending,         \* success callbacks awaiting reverseGeocode
    seq,                \* number of load requests started so far
    ticks,              \* number of clock advances so far
    ev,                 \* the handler or continuation that ran last
    log                 \* the loadWeather / updateAiInsight / updateHistory calls it made

appVars == <<mounted, weather, loading, error, aiInsight, isAiLoading, historyEvents,
             isHistoryLoading, defaultLocation, storage, geoSupported, wxInFlight,
             aiInFlight, histInFlight, geoPending, revPending, seq, ticks, ev, log>>

\* the preferences and banners of the App, and the part of localStorage they use
VARIABLES
    theme,              \* useState theme
    unit,               \* useState unit
    showConsent,        \* useState showConsent
    preferredCountry,   \* useState preferredCountry
    rootClasses,        \* the theme classes of document.documentElement
    prefs               \* localStorage: theme, tempUnit, consent, preferredCountry

uiVars == <<theme, unit, showConsent, preferredCountry, rootClasses, prefs>>

(***************************************************************************)
(* Calls of the service functions on their own                             *)
(***************************************************************************)
VARIABLES
    service,    \* the service function that has been called
    response,   \* what generateContent resolved with
    result,     \* how the promise of the service function settled
    celsius,    \* a temperature of the WeatherData, in tenths of a degree
    shown,      \* what formatTemp gave for it
    prompted    \* what convert in getAIInsight gave for it

svcVars == <<service, response, result, celsius, shown, prompted>>

VARIABLES
    hourlyTime,         \* weather.hourly.time: how many points, and the hour of the first
    nowHour,            \* new Date().getHours()
    chartRange,         \* useState chartRange
    chartData,          \* the points the chart shows, as indices into the hourly series
    build,              \* which App computes chartData
    codes,              \* the weather codes of the displayed weather: current, hourly, daily
    dismissedAlerts,    \* useState dismissedAlerts
    activeAlerts        \* useMemo activeAlerts

viewVars == <<hourlyTime, nowHour, chartRange, chartData, build, codes,
              dismissedAlerts, activeAlerts>>

vars == <<now, retryVars, appVars, uiVars, svcVars, viewVars>>

\* undefined (an absent field), as a number no status takes
Undefined == 0 - 1

DefaultRetries == 3
DefaultDelay == 1000

\* error.status and error.error.status of the errors fn may fail with
StatusVals == {Undefined, 0, 429, 500, 503, 504}
Errors == [status : StatusVals, inner : StatusVals]
NoErr == [status |-> 0 - 2, inner |-> 0 - 2]
Values == {"r1", "r2"}
Delays == {DefaultDelay, 500}
FnTimes == {0, 500}
TickMs == 500
Pending == [state |-> "pending", val |-> "none", err |-> NoErr]

\* JavaScript truthiness of a status value
Truthy(x) == x \notin {Undefined, 0}

\* error?.status || error?.error?.status
StatusOf(err) == IF Truthy(err.status) THEN err.status ELSE err.inner

\* a wrapper that also retries on a plain server error
isTransientAny5xx(status) == status = 500 \/ status = 503 \/ status = 504 \/ status = 429

isTransient(status) == status = 503 \/ status = 504 \/ status = 429

\* a budget check that is off by one
CanRetryOffByOne(r, transient) == r >= 0 /\ transient

CanRetry(r, transient) == r > 0 /\ transient

\* a linear instead of an exponential backoff
NextDelayLinear(d) == d + DefaultDelay

NextDelay(d) == d * 2

\* Cache configuration
WEATHER_TTL == 15 * 60 * 1000
HISTORY_TTL == 24 * 60 * 60 * 1000

\* 0.05 degrees, the tolerance of loadWeather, in hundredths of a degree
CoordTolerance == 5

\* the places the geocoder and the browser's geolocation report
NoLoc == "none"
Locs == {"A", "B", "C"}
Lat(l) == CASE l = "A" -> 1000 [] l = "B" -> 1004 [] l = "C" -> 1005 [] OTHER -> 0
Lon(l) == CASE l = "A" -> 2000 [] l = "B" -> 2005 [] l = "C" -> 2004 [] OTHER -> 0

Abs(x) == IF x < 0 THEN 0 - x ELSE x

\* how far the clock advances in one step: to just below the weather TTL, to
\* it, to the history TTL, and round again
StepAt(k) ==
    CASE k % 3 = 0 -> WEATHER_TTL - 1
      [] k % 3 = 1 -> 1
      [] OTHER -> HISTORY_TTL - WEATHER_TTL

\* WeatherData: the place it is for and the request that produced it
NoWeather == [loc |-> NoLoc, id |-> 0]
\* fetchWeather(lat, lon, name, country), when it resolves
fetchWeather(loc, id) == [loc |-> loc, id |-> id]

NoInsight == [kind |-> "empty", of |-> NoWeather]
NoHistory == [kind |-> "none", gen |-> 0]

\* getAIInsight(weather): the text of the response, the default text when the
\* response has none, the apology when withRetry rejected
AiOutcomes == {"text", "blank", "fail"}
getAIInsight(data, outcome) ==
    CASE outcome = "text" -> [kind |-> "text", of |-> data]
      [] outcome = "blank" -> [kind |-> "default", of |-> NoWeather]
      [] OTHER -> [kind |-> "fallback", of |-> NoWeather]

\* fetchHistoryOnThisDay(): the parsed events, [] when the text is empty or
\* does not parse, [] when withRetry rejected
HistoryOutcomes == {"events", "blank", "fail"}
fetchHistoryOnThisDay(id, outcome) ==
    CASE outcome = "events" -> [kind |-> "events", gen |-> id]
      [] OTHER -> [kind |-> "empty", gen |-> 0]

\* localStorage, one field per key
CacheKeys == {"weather", "insight", "history"}
Absent(data) == [kind |-> "absent", data |-> data, timestamp |-> 0]
EmptyStorage ==
    [weather |-> Absent(NoWeather), insight |-> Absent(NoInsight),
     history |-> Absent(NoHistory), defaultLocation |-> NoLoc]

\* what a stored item may be besides what setCache wrote ("json"): text that
\* is not JSON ("garbage"), the JSON of null, false or 0 ("falsy"), JSON
\* without the two fields, like {} ("shapeless"), and JSON with a timestamp
\* but no data ("nodata")
StoredKinds == {"absent", "json", "garbage", "falsy", "shapeless", "nodata"}

\* the data field of a parsed item that has none
UndefinedData(key) ==
    CASE key = "weather" -> [loc |-> "undefined", id |-> 0]
      [] key = "insight" -> [kind |-> "undefined", of |-> NoWeather]
      [] OTHER -> [kind |-> "undefined", gen |-> 0]

\* getCache returns null for a missing item and for text JSON.parse rejects,
\* and whatever JSON.parse returns otherwise
getCache(st, key) ==
    IF st[key].kind = "garbage" THEN Absent(st[key].data) ELSE st[key]
\* the truthiness test of the callers: cached && ...
Present(cached) == cached.kind \notin {"absent", "falsy"}

\* setCache, called at time t
setCache(st, key, data, t) ==
    [st EXCEPT ![key] = [kind |-> "json", data |-> data, timestamp |-> t]]

\* a validity check that still accepts an entry of exactly the TTL's age
isCacheValidInclusive(timestamp, ttl, t) == (t - timestamp) <= ttl

\* isCacheValid, called at time t
isCacheValid(timestamp, ttl, t) == timestamp # Undefined /\ (t - timestamp) < ttl

\* the error messages
NoError == "null"
FetchError == "Could not fetch weather data. Please try again."
DeniedError == "Location permission denied."
UnsupportedError == "Geolocation is not supported"

NoEvent == [op |-> "construct", id |-> 0, outcome |-> "none"]

\* the state of the component and the browser, as one record
Cur ==
    [mounted |-> mounted, weather |-> weather, loading |-> loading, error |-> error,
     aiInsight |-> aiInsight, isAiLoading |-> isAiLoading,
     historyEvents |-> historyEvents, isHistoryLoading |-> isHistoryLoading,
     defaultLocation |-> defaultLocation, storage |-> storage,
     wxInFlight |-> wxInFlight, aiInFlight |-> aiInFlight,
     histInFlight |-> histInFlight, geoPending |-> geoPending,
     revPending |-> revPending, log |-> <<>>]

Commit(s) ==
    /\ mounted' = s.mounted
    /\ weather' = s.weather
    /\ loading' = s.loading
    /\ error' = s.error
    /\ aiInsight' = s.aiInsight
    /\ isAiLoading' = s.isAiLoading
    /\ historyEvents' = s.historyEvents
    /\ isHistoryLoading' = s.isHistoryLoading
    /\ defaultLocation' = s.defaultLocation
    /\ storage' = s.storage
    /\ wxInFlight' = s.wxInFlight
    /\ aiInFlight' = s.aiInFlight
    /\ histInFlight' = s.histInFlight
    /\ geoPending' = s.geoPending
    /\ revPending' = s.revPending
    /\ log' = s.log

\* one call of loadWeather, updateAiInsight or updateHistory, as the log keeps it
Call(fn, via, loc, force, entry, t, served, fetches) ==
    [fn |-> fn, via |-> via, loc |-> loc, force |-> force, entry |-> entry,
     at |-> t, served |-> served, fetches |-> fetches]

\* an updateAiInsight whose cache hit renews the entry
updateAiInsightTouch(s, data, forceRefresh, via, id, t) ==
    LET cached == getCache(s.storage, "insight")
        hit == ~forceRefresh /\ Present(cached)
                 /\ isCacheValid(cached.timestamp, WEATHER_TTL, t)
    IN  IF hit
        THEN [s EXCEPT !.aiInsight = cached.data,
                       !.storage = setCache(@, "insight", cached.data, t),
                       !.log = Append(@, Call("updateAiInsight", via, data.loc,
                                              forceRefresh, cached, t, TRUE, 0))]
        ELSE [s EXCEPT !.isAiLoading = TRUE,
                       !.aiInFlight = @ \cup {[data |-> data, id |-> id, via |-> via]},
                       !.log = Append(@, Call("updateAiInsight", via, data.loc,
                                              forceRefresh, cached, t, FALSE, 1))]

\* updateAiInsight(data, forceRefresh) up to its await, called at time t
updateAiInsight(s, data, forceRefresh, via, id, t) ==
    LET cached == getCache(s.storage, "insight")
        hit == ~forceRefresh /\ Present(cached)
                 /\ isCacheValid(cached.timestamp, WEATHER_TTL, t)
    IN  IF hit
        THEN [s EXCEPT !.aiInsight = cached.data,
                       !.log = Append(@, Call("updateAiInsight", via, data.loc,
                                              forceRefresh, cached, t, TRUE, 0))]
        ELSE [s EXCEPT !.isAiLoading = TRUE,
                       !.aiInFlight = @ \cup {[data |-> data, id |-> id, via |-> via]},
                       !.log = Append(@, Call("updateAiInsight", via, data.loc,
                                              forceRefresh, cached, t, FALSE, 1))]

\* updateHistory(forceRefresh) up to its await, called at time t
updateHistory(s, forceRefresh, via, id, t) ==
    LET cached == getCache(s.storage, "history")
        hit == ~forceRefresh /\ Present(cached)
                 /\ isCacheValid(cached.timestamp, HISTORY_TTL, t)
    IN  IF hit
        THEN [s EXCEPT !.historyEvents = cached.data,
                       !.log = Append(@, Call("updateHistory", via, NoLoc,
                                              forceRefresh, cached, t, TRUE, 0))]
        ELSE [s EXCEPT !.isHistoryLoading = TRUE,
                       !.histInFlight = @ \cup {[id |-> id, via |-> via]},
                       !.log = Append(@, Call("updateHistory", via, NoLoc,
                                              forceRefresh, cached, t, FALSE, 1))]

\* a coordinate match that accepts a difference of exactly the tolerance
CacheHitInclusive(cachedWeather, loc, forceRefresh, t) ==
    /\ ~forceRefresh
    /\ Present(cachedWeather)
    /\ isCacheValid(cachedWeather.timestamp, WEATHER_TTL, t)
    /\ Abs(Lat(cachedWeather.data.loc) - Lat(loc)) <= CoordTolerance
    /\ Abs(Lon(cachedWeather.data.loc) - Lon(loc)) <= CoordTolerance

\* whether loadWeather(lat, lon, .., forceRefresh) takes the cache branch
CacheHit(cachedWeather, loc, forceRefresh, t) ==
    /\ ~forceRefresh
    /\ Present(cachedWeather)
    /\ isCacheValid(cachedWeather.timestamp, WEATHER_TTL, t)
    /\ Abs(Lat(cachedWeather.data.loc) - Lat(loc)) < CoordTolerance
    /\ Abs(Lon(cachedWeather.data.loc) - Lon(loc)) < CoordTolerance

\* whether loadWeather throws a TypeError at data.location: the entry passed
\* the tests of the cache branch and has no data
Raises(cachedWeather, forceRefresh, t) ==
    /\ ~forceRefresh
    /\ Present(cachedWeather)
    /\ isCacheValid(cachedWeather.timestamp, WEATHER_TTL, t)
    /\ cachedWeather.data = UndefinedData("weather")

\* a loadWeather that starts the insight and history calls along with the fetch
loadWeatherEager(s, loc, forceRefresh, via, id, t) ==
    LET cachedWeather == getCache(s.storage, "weather")
    IN  IF CacheHit(cachedWeather, loc, forceRefresh, t)
        THEN LET data == cachedWeather.data
                 s1 == [s EXCEPT !.weather = data,
                                 !.loading = FALSE,
                                 !.log = Append(@, Call("loadWeather", via, loc, forceRefresh,
                                                        cachedWeather, t, TRUE, 0))]
             IN  updateHistory(updateAiInsight(s1, data, FALSE, via, id, t), FALSE, via, id, t)
        ELSE LET s1 == [s EXCEPT !.loading = TRUE,
                                 !.error = NoError,
                                 !.wxInFlight = @ \cup {[loc |-> loc, id |-> id, via |-> via]},
                                 !.log = Append(@, Call("loadWeather", via, loc, forceRefresh,
                                                        cachedWeather, t, FALSE, 1))]
             IN  updateHistory(updateAiInsight(s1, s.weather, TRUE, via, id, t),
                               TRUE, via, id, t)

\* loadWeather(lat, lon, name, country, forceRefresh) up to its await
loadWeather(s, loc, forceRefresh, via, id, t) ==
    LET cachedWeather == getCache(s.storage, "weather")
    IN  IF Raises(cachedWeather, forceRefresh, t)
        THEN [s EXCEPT !.log = Append(@, Call("TypeError", via, loc, forceRefresh,
                                              cachedWeather, t, FALSE, 0))]
        ELSE
        IF CacheHit(cachedWeather, loc, forceRefresh, t)
        THEN LET data == cachedWeather.data
                 s1 == [s EXCEPT !.weather = data,
                                 !.loading = FALSE,
                                 !.log = Append(@, Call("loadWeather", via, loc, forceRefresh,
                                                        cachedWeather, t, TRUE, 0))]
             IN  updateHistory(updateAiInsight(s1, data, FALSE, via, id, t), FALSE, via, id, t)
        ELSE [s EXCEPT !.loading = TRUE,
                       !.error = NoError,
                       !.wxInFlight = @ \cup {[loc |-> loc, id |-> id, via |-> via]},
                       !.log = Append(@, Call("loadWeather", via, loc, forceRefresh,
                                              cachedWeather, t, FALSE, 1))]

\* handleGeolocation()
handleGeolocation(s, id) ==
    IF ~geoSupported
    THEN [s EXCEPT !.error = UnsupportedError]
    ELSE [s EXCEPT !.loading = TRUE,
                   !.geoPending = @ \cup {[def |-> s.defaultLocation, id |-> id]}]

\* a start-up effect that looks at the weather cache before the default location
startUpEffectCacheFirst(s, id, t) ==
    LET cached == getCache(s.storage, "weather")
    IN  IF Present(cached) /\ isCacheValid(cached.timestamp, WEATHER_TTL, t)
        THEN loadWeather(s, cached.data.loc, FALSE, "effect", id, t)
        ELSE IF s.defaultLocation # NoLoc
             THEN loadWeather(s, s.defaultLocation, FALSE, "effect", id, t)
             ELSE handleGeolocation(s, id)

\* the effect with the dependencies [defaultLocation, loadWeather]
startUpEffect(s, id, t) ==
    IF s.defaultLocation # NoLoc
    THEN loadWeather(s, s.defaultLocation, FALSE, "effect", id, t)
    ELSE LET cached == getCache(s.storage, "weather")
         IN  IF Present(cached) /\ isCacheValid(cached.timestamp, WEATHER_TTL, t)
             THEN IF cached.data = UndefinedData("weather")
                  THEN [s EXCEPT !.log = Append(@, Call("TypeError", "effect", NoLoc, FALSE,
                                                        cached, t, FALSE, 0))]
                  ELSE loadWeather(s, cached.data.loc, FALSE, "effect", id, t)
             ELSE handleGeolocation(s, id)

\* requests and callbacks that have not settled yet
Outstanding ==
    Cardinality(wxInFlight) + Cardinality(aiInFlight) + Cardinality(histInFlight)
        + Cardinality(geoPending) + Cardinality(revPending)

\* the page shows the search box and the settings unless the loader is up; the
\* user clicks while fewer than MaxPending requests are outstanding
Rendered == mounted /\ ~(loading /\ weather = NoWeather) /\ Outstanding < MaxPending

\* withRetry is not running
RetryIdle ==
    /\ pc = "idle"
    /\ retries = 0
    /\ delay = 0
    /\ args = [retries |-> 0, delay |-> 0]
    /\ calls = 0
    /\ running = 0
    /\ waits = <<>>
    /\ timerDue = 0
    /\ startAt = 0
    /\ failAt = 0
    /\ lastErr = NoErr
    /\ fnValue = "none"
    /\ settled = Pending

\* the component as its useState initialisers leave it
Constructed(st) ==
    [mounted |-> FALSE, weather |-> NoWeather, loading |-> TRUE, error |-> NoError,
     aiInsight |-> NoInsight, isAiLoading |-> FALSE,
     historyEvents |-> NoHistory, isHistoryLoading |-> FALSE,
     defaultLocation |-> st.defaultLocation, storage |-> st,
     wxInFlight |-> {}, aiInFlight |-> {}, histInFlight |-> {}, geoPending |-> {},
     revPending |-> {}, log |-> <<>>]

Event(op, id, outcome) == [op |-> op, id |-> id, outcome |-> outcome]

(***************************************************************************)
(* Preferences: theme, unit, consent, preferred country                    *)
(***************************************************************************)
\* localStorage.getItem of a key that is not stored
NoItem == "(null)"
Themes == {"light", "dark", "midnight"}
Countries == {"USA", "Canada"}

\* what localStorage may hold under the four keys when the page is opened: what
\* the App writes, and a value the App has not written ("sepia", "K")
StoredThemes == Themes \cup {NoItem, "sepia"}
StoredUnits == {NoItem, "C", "F", "K"}
StoredConsents == {NoItem, "true"}
StoredCountries == {NoItem, "Canada"}
EmptyPrefs ==
    [theme |-> NoItem, tempUnit |-> NoItem, consent |-> NoItem, preferredCountry |-> NoItem]

\* the useState initialisers
themeInit(p) == IF p.theme \in Themes THEN p.theme ELSE "midnight"
unitInit(p) == IF p.tempUnit # NoItem THEN p.tempUnit ELSE "C"
showConsentInit(p) == p.consent = NoItem
preferredCountryInit(p) == IF p.preferredCountry # NoItem THEN p.preferredCountry ELSE "USA"

\* cycleTheme: the updater of setTheme
cycleThemeBack(prev) ==
    IF prev = "light" THEN "midnight" ELSE IF prev = "dark" THEN "light" ELSE "dark"
cycleTheme(prev) ==
    IF prev = "light" THEN "dark" ELSE IF prev = "dark" THEN "midnight" ELSE "light"

\* toggleUnit: the updater of setUnit
toggleUnit(prev) == IF prev = "C" THEN "F" ELSE "C"

\* the effect with the dependency [theme], run for the theme th
themeEffectAddOnly(th) ==
    /\ rootClasses' = rootClasses \cup {th}
    /\ prefs' = [prefs EXCEPT !.theme = th]
themeEffect(th) ==
    /\ rootClasses' = (rootClasses \ {"light", "dark", "midnight"}) \cup {th}
    /\ prefs' = [prefs EXCEPT !.theme = th]

\* a page load: the preferences as the useState initialisers leave them; the
\* document root carries no theme class before the effect has run
ConstructedUi(p) ==
    /\ theme' = themeInit(p)
    /\ unit' = unitInit(p)
    /\ showConsent' = showConsentInit(p)
    /\ preferredCountry' = preferredCountryInit(p)
    /\ rootClasses' = {}
    /\ prefs' = p

\* the first visit: nothing is stored
UiFirstVisit ==
    /\ prefs = EmptyPrefs
    /\ theme = themeInit(prefs)
    /\ unit = unitInit(prefs)
    /\ showConsent = showConsentInit(prefs)
    /\ preferredCountry = preferredCountryInit(prefs)
    /\ rootClasses = {}

\* no temperature has been formatted
NoTemp == [value |-> 0, unit |-> "none"]

\* no service function has been called
NoResponse == [text |-> "none", chunks |-> <<>>, n |-> 0]
NoResult == [state |-> "pending", kind |-> "none", items |-> <<>>]
NoCodes == [current |-> 0, hourly |-> <<>>, daily |-> <<>>]

\* the chart and the alerts of a page that shows no weather
ViewIdle ==
    /\ hourlyTime = [n |-> 0, first |-> 0]
    /\ nowHour = 0
    /\ chartRange = 24
    /\ chartData = <<>>
    /\ build = "App"
    /\ codes = NoCodes
    /\ dismissedAlerts = {}
    /\ activeAlerts = <<>>

SvcIdle ==
    /\ service = "none"
    /\ response = NoResponse
    /\ result = NoResult
    /\ celsius = 0
    /\ shown = NoTemp
    /\ prompted = NoTemp

\* the first visit: nothing is stored
Init ==
    /\ now = 0
    /\ ViewIdle
    /\ RetryIdle
    /\ mounted = FALSE
    /\ weather = NoWeather
    /\ loading = TRUE
    /\ error = NoError
    /\ aiInsight = NoInsight
    /\ isAiLoading = FALSE
    /\ historyEvents = NoHistory
    /\ isHistoryLoading = FALSE
    /\ defaultLocation = NoLoc
    /\ storage = EmptyStorage
    /\ geoSupported \in BOOLEAN
    /\ wxInFlight = {}
    /\ aiInFlight = {}
    /\ histInFlight = {}
    /\ geoPending = {}
    /\ revPending = {}
    /\ seq = 0
    /\ ticks = 0
    /\ ev = NoEvent
    /\ log = <<>>
    /\ UiFirstVisit
    /\ SvcIdle

\* the effects run after the first render: the theme effect, the start-up effect
StartUp ==
    /\ ~mounted
    /\ seq < MaxLoads
    /\ Commit(startUpEffect([Cur EXCEPT !.mounted = TRUE], seq + 1, now))
    /\ seq' = seq + 1
    /\ themeEffect(theme)
    /\ ev' = Event("startUp", seq + 1, "none")
    /\ UNCHANGED <<now, ticks, geoSupported, retryVars, svcVars, viewVars>>
    /\ UNCHANGED <<theme, unit, showConsent, preferredCountry>>

\* the page is loaded again: the component is constructed from localStorage
Reload ==
    /\ mounted
    /\ seq < MaxLoads
    /\ Commit(Constructed(storage))
    /\ ConstructedUi(prefs)
    /\ ev' = Event("reload", 0, "none")
    /\ UNCHANGED <<now, seq, ticks, geoSupported, retryVars, svcVars, viewVars>>

HandleSelectLocation(loc) ==
    /\ Rendered
    /\ seq < MaxLoads
    /\ Commit(loadWeather(Cur, loc, TRUE, "select", seq + 1, now))
    /\ seq' = seq + 1
    /\ ev' = Event("handleSelectLocation", seq + 1, "none")
    /\ UNCHANGED <<now, ticks, geoSupported, retryVars, uiVars, svcVars, viewVars>>

\* handleSetDefaultLocation, and the effect its setDefaultLocation triggers
HandleSetDefaultLocation(loc) ==
    /\ Rendered
    /\ seq < MaxLoads
    /\ LET s1 == [Cur EXCEPT !.defaultLocation = loc,
                             !.storage = [@ EXCEPT !.defaultLocation = loc]]
           s2 == loadWeather(s1, loc, TRUE, "setDefault", seq + 1, now)
       IN  Commit(startUpEffect(s2, seq + 1, now))
    /\ seq' = seq + 1
    /\ ev' = Event("handleSetDefaultLocation", seq + 1, "none")
    /\ UNCHANGED <<now, ticks, geoSupported, retryVars, uiVars, svcVars, viewVars>>

\* handleClearDefault, and the effect its setDefaultLocation triggers
HandleClearDefault ==
    /\ Rendered
    /\ defaultLocation # NoLoc
    /\ seq < MaxLoads
    /\ LET s1 == [Cur EXCEPT !.defaultLocation = NoLoc,
                             !.storage = [@ EXCEPT !.defaultLocation = NoLoc]]
       IN  Commit(startUpEffect(s1, seq + 1, now))
    /\ seq' = seq + 1
    /\ ev' = Event("handleClearDefault", seq + 1, "none")
    /\ UNCHANGED <<now, ticks, geoSupported, retryVars, uiVars, svcVars, viewVars>>

\* a click on the logo
HandleGeolocation ==
    /\ Rendered
    /\ seq < MaxLoads
    /\ Commit(handleGeolocation(Cur, seq + 1))
    /\ seq' = seq + 1
    /\ ev' = Event("handleGeolocation", seq + 1, "none")
    /\ UNCHANGED <<now, ticks, geoSupported, retryVars, uiVars, svcVars, viewVars>>

\* the success callback of getCurrentPosition, up to its await
GeoSuccess(req, pos) ==
    /\ req \in geoPending
    /\ Commit([Cur EXCEPT !.geoPending = @ \ {req},
                          !.revPending = @ \cup {[loc |-> pos, id |-> req.id]}])
    /\ ev' = Event("geoSuccess", req.id, "none")
    /\ UNCHANGED <<now, seq, ticks, geoSupported, retryVars, uiVars, svcVars, viewVars>>

\* the error callback of getCurrentPosition
GeoDenied(req) ==
    /\ req \in geoPending
    /\ LET s1 == [Cur EXCEPT !.geoPending = @ \ {req}]
       IN  IF req.def # NoLoc
           THEN Commit(loadWeather(s1, req.def, FALSE, "geoDenied", req.id, now))
           ELSE Commit([s1 EXCEPT !.error = DeniedError, !.loading = FALSE])
    /\ ev' = Event("geoDenied", req.id, "none")
    /\ UNCHANGED <<now, seq, ticks, geoSupported, retryVars, uiVars, svcVars, viewVars>>

\* reverseGeocode resolves: the success callback goes on
RevGeoResolve(r) ==
    /\ r \in revPending
    /\ Commit(loadWeather([Cur EXCEPT !.revPending = @ \ {r}], r.loc, FALSE, "geo", r.id, now))
    /\ ev' = Event("reverseGeocode", r.id, "resolved")
    /\ UNCHANGED <<now, seq, ticks, geoSupported, retryVars, uiVars, svcVars, viewVars>>

\* reverseGeocode rejects: the success callback ends there
RevGeoReject(r) ==
    /\ r \in revPending
    /\ Commit([Cur EXCEPT !.revPending = @ \ {r}])
    /\ ev' = Event("reverseGeocode", r.id, "rejected")
    /\ UNCHANGED <<now, seq, ticks, geoSupported, retryVars, uiVars, svcVars, viewVars>>

\* fetchWeather resolves: the try block of loadWeather goes on, then finally
FetchWeatherResolve(req) ==
    /\ req \in wxInFlight
    /\ LET data == fetchWeather(req.loc, req.id)
           s1 == [Cur EXCEPT !.wxInFlight = @ \ {req},
                             !.weather = data,
                             !.storage = setCache(@, "weather", data, now)]
           s2 == updateAiInsight(s1, data, TRUE, req.via, req.id, now)
           s3 == updateHistory(s2, TRUE, req.via, req.id, now)
       IN  Commit([s3 EXCEPT !.loading = FALSE])
    /\ ev' = Event("fetchWeather", req.id, "resolved")
    /\ UNCHANGED <<now, seq, ticks, geoSupported, retryVars, uiVars, svcVars, viewVars>>

\* a catch block that also drops what was shown and cached
FetchWeatherRejectClearing(req) ==
    /\ req \in wxInFlight
    /\ Commit([Cur EXCEPT !.wxInFlight = @ \ {req},
                          !.weather = NoWeather,
                          !.storage = [@ EXCEPT !.weather = Absent(NoWeather)],
                          !.error = FetchError,
                          !.loading = FALSE])
    /\ ev' = Event("fetchWeather", req.id, "rejected")
    /\ UNCHANGED <<now, seq, ticks, geoSupported, retryVars, uiVars, svcVars, viewVars>>

\* fetchWeather rejects: catch, then finally
FetchWeatherReject(req) ==
    /\ req \in wxInFlight
    /\ Commit([Cur EXCEPT !.wxInFlight = @ \ {req},
                          !.error = FetchError,
                          !.loading = FALSE])
    /\ ev' = Event("fetchWeather", req.id, "rejected")
    /\ UNCHANGED <<now, seq, ticks, geoSupported, retryVars, uiVars, svcVars, viewVars>>

\* getAIInsight resolves: updateAiInsight goes on after its await
InsightSettle(req, outcome) ==
    /\ req \in aiInFlight
    /\ LET insight == getAIInsight(req.data, outcome)
       IN  Commit([Cur EXCEPT !.aiInFlight = @ \ {req},
                              !.aiInsight = insight,
                              !.storage = setCache(@, "insight", insight, now),
                              !.isAiLoading = FALSE])
    /\ ev' = Event("getAIInsight", req.id, outcome)
    /\ UNCHANGED <<now, seq, ticks, geoSupported, retryVars, uiVars, svcVars, viewVars>>

\* fetchHistoryOnThisDay resolves: updateHistory goes on after its await
HistorySettle(req, outcome) ==
    /\ req \in histInFlight
    /\ LET history == fetchHistoryOnThisDay(req.id, outcome)
       IN  Commit([Cur EXCEPT !.histInFlight = @ \ {req},
                              !.historyEvents = history,
                              !.storage = setCache(@, "history", history, now),
                              !.isHistoryLoading = FALSE])
    /\ ev' = Event("fetchHistoryOnThisDay", req.id, outcome)
    /\ UNCHANGED <<now, seq, ticks, geoSupported, retryVars, uiVars, svcVars, viewVars>>

\* time passes
Tick ==
    /\ ticks < MaxTicks
    /\ now' = now + StepAt(ticks)
    /\ ticks' = ticks + 1
    /\ ev' = Event("tick", 0, "none")
    /\ log' = <<>>
    /\ UNCHANGED <<mounted, weather, loading, error, aiInsight, isAiLoading, historyEvents,
                   isHistoryLoading, defaultLocation, storage, geoSupported, wxInFlight,
                   aiInFlight, histInFlight, geoPending, revPending, seq>>
    /\ UNCHANGED <<retryVars, uiVars, svcVars, viewVars>>

Next ==
    \/ StartUp
    \/ Reload
    \/ \E loc \in Locs : HandleSelectLocation(loc)
    \/ \E loc \in Locs : HandleSetDefaultLocation(loc)
    \/ HandleClearDefault
    \/ HandleGeolocation
    \/ \E req \in geoPending, pos \in Locs : GeoSuccess(req, pos)
    \/ \E req \in geoPending : GeoDenied(req)
    \/ \E r \in revPending : RevGeoResolve(r)
    \/ \E r \in revPending : RevGeoReject(r)
    \/ \E req \in wxInFlight : FetchWeatherResolve(req)
    \/ \E req \in wxInFlight : FetchWeatherReject(req)
    \/ \E req \in aiInFlight, outcome \in AiOutcomes : InsightSettle(req, outcome)
    \/ \E req \in histInFlight, outcome \in HistoryOutcomes : HistorySettle(req, outcome)
    \/ Tick

Spec == Init /\ [][Next]_vars

\* the App is not mounted while withRetry is checked on its own
AppIdle ==
    /\ mounted = FALSE
    /\ weather = NoWeather
    /\ loading = TRUE
    /\ error = NoError
    /\ aiInsight = NoInsight
    /\ isAiLoading = FALSE
    /\ historyEvents = NoHistory
    /\ isHistoryLoading = FALSE
    /\ defaultLocation = NoLoc
    /\ storage = EmptyStorage
    /\ geoSupported = TRUE
    /\ wxInFlight = {}
    /\ aiInFlight = {}
    /\ histInFlight = {}
    /\ geoPending = {}
    /\ revPending = {}
    /\ seq = 0
    /\ ticks = 0
    /\ ev = NoEvent
    /\ log = <<>>
    /\ UiFirstVisit

InitRetry ==
    /\ now = 0
    /\ ViewIdle
    /\ \E n \in 0..MaxRetries, d \in Delays :
        /\ retries = n
        /\ delay = d
        /\ args = [retries |-> n, delay |-> d]
    /\ pc = "fn"
    /\ calls = 1
    /\ running = 1
    /\ waits = <<>>
    /\ timerDue = 0
    /\ startAt = 0
    /\ failAt = 0
    /\ lastErr = NoErr
    /\ fnValue = "none"
    /\ settled = Pending
    /\ AppIdle
    /\ SvcIdle

\* a wrapper that calls fn once more after a success while budget is left
RetryFnResolveAgain(v, d) ==
    /\ pc = "fn"
    /\ now' = now + d
    /\ fnValue' = v
    /\ IF retries > 0
       THEN /\ retries' = retries - 1
            /\ calls' = calls + 1
            /\ startAt' = now'
            /\ UNCHANGED <<pc, running, settled>>
       ELSE /\ running' = running - 1
            /\ settled' = [state |-> "fulfilled", val |-> v, err |-> NoErr]
            /\ pc' = "resolved"
            /\ UNCHANGED <<retries, calls, startAt>>
    /\ UNCHANGED <<delay, args, waits, timerDue, failAt, lastErr>>
    /\ UNCHANGED <<appVars, uiVars, svcVars, viewVars>>

\* `return await fn()` when fn resolves with v after d ms
RetryFnResolve(v, d) ==
    /\ pc = "fn"
    /\ now' = now + d
    /\ running' = running - 1
    /\ fnValue' = v
    /\ settled' = [state |-> "fulfilled", val |-> v, err |-> NoErr]
    /\ pc' = "resolved"
    /\ UNCHANGED <<retries, delay, args, calls, waits, timerDue, startAt, failAt, lastErr>>
    /\ UNCHANGED <<appVars, uiVars, svcVars, viewVars>>

\* the catch block, when fn rejects with error after d ms
RetryFnReject(err, d) ==
    /\ pc = "fn"
    /\ now' = now + d
    /\ running' = running - 1
    /\ lastErr' = err
    /\ failAt' = now'
    /\ IF CanRetry(retries, isTransient(StatusOf(err)))
       THEN /\ pc' = "sleep"
            /\ timerDue' = now' + delay
            /\ UNCHANGED settled
       ELSE /\ pc' = "rejected"
            /\ settled' = [state |-> "rejected", val |-> "none", err |-> err]
            /\ UNCHANGED timerDue
    /\ UNCHANGED <<retries, delay, args, calls, waits, startAt, fnValue>>
    /\ UNCHANGED <<appVars, uiVars, svcVars, viewVars>>

\* time passes while the setTimeout is pending
RetryTick ==
    /\ pc = "sleep"
    /\ now < timerDue
    /\ now' = now + TickMs
    /\ UNCHANGED retryVars
    /\ UNCHANGED <<appVars, uiVars, svcVars, viewVars>>

\* the timer fires: withRetry(fn, retries - 1, delay * 2), which calls fn
RetryTimer ==
    /\ pc = "sleep"
    /\ now >= timerDue
    /\ waits' = Append(waits, delay)
    /\ retries' = retries - 1
    /\ delay' = NextDelay(delay)
    /\ pc' = "fn"
    /\ calls' = calls + 1
    /\ running' = running + 1
    /\ startAt' = now
    /\ UNCHANGED <<now, args, timerDue, failAt, lastErr, fnValue, settled>>
    /\ UNCHANGED <<appVars, uiVars, svcVars, viewVars>>

NextRetry ==
    \/ \E v \in Values, d \in FnTimes : RetryFnResolve(v, d)
    \/ \E err \in Errors, d \in FnTimes : RetryFnReject(err, d)
    \/ RetryTick
    \/ RetryTimer

SpecRetry == InitRetry /\ [][NextRetry]_vars

\* every call of fn settles and every timer fires
SpecRetryLive == SpecRetry /\ WF_vars(NextRetry)

(***************************************************************************)
(* The preference handlers, and the specification they are checked under   *)
(***************************************************************************)
\* the App's state other than ev and log
appState == <<mounted, weather, loading, error, aiInsight, isAiLoading, historyEvents,
              isHistoryLoading, defaultLocation, storage, geoSupported, wxInFlight,
              aiInFlight, histInFlight, geoPending, revPending, seq, ticks>>

\* the header, the settings and the banners are rendered unless the loader is up
UiShown == mounted /\ ~(loading /\ weather = NoWeather)

\* cycleTheme, and the theme effect the new theme triggers
CycleTheme ==
    /\ UiShown
    /\ theme' = cycleTheme(theme)
    /\ themeEffect(theme')
    /\ ev' = Event("cycleTheme", 0, "none")
    /\ log' = <<>>
    /\ UNCHANGED <<unit, showConsent, preferredCountry>>
    /\ UNCHANGED <<now, appState, retryVars, svcVars, viewVars>>

\* toggleUnit
ToggleUnit ==
    /\ UiShown
    /\ unit' = toggleUnit(unit)
    /\ prefs' = [prefs EXCEPT !.tempUnit = unit']
    /\ ev' = Event("toggleUnit", 0, "none")
    /\ log' = <<>>
    /\ UNCHANGED <<theme, showConsent, preferredCountry, rootClasses>>
    /\ UNCHANGED <<now, appState, retryVars, svcVars, viewVars>>

\* an Acknowledge button that only hides the banner
AcceptConsentUnrecorded ==
    /\ UiShown
    /\ showConsent
    /\ showConsent' = FALSE
    /\ ev' = Event("acceptConsent", 0, "none")
    /\ log' = <<>>
    /\ UNCHANGED <<theme, unit, preferredCountry, rootClasses, prefs>>
    /\ UNCHANGED <<now, appState, retryVars, svcVars, viewVars>>

\* acceptConsent: the Acknowledge button of the consent banner
AcceptConsent ==
    /\ UiShown
    /\ showConsent
    /\ prefs' = [prefs EXCEPT !.consent = "true"]
    /\ showConsent' = FALSE
    /\ ev' = Event("acceptConsent", 0, "none")
    /\ log' = <<>>
    /\ UNCHANGED <<theme, unit, preferredCountry, rootClasses>>
    /\ UNCHANGED <<now, appState, retryVars, svcVars, viewVars>>

\* the Later button of the consent banner: setShowConsent(false)
DismissConsent ==
    /\ UiShown
    /\ showConsent
    /\ showConsent' = FALSE
    /\ ev' = Event("dismissConsent", 0, "none")
    /\ log' = <<>>
    /\ UNCHANGED <<theme, unit, preferredCountry, rootClasses, prefs>>
    /\ UNCHANGED <<now, appState, retryVars, svcVars, viewVars>>

\* updateCountryPreference(country); the activity explorer is not modelled
UpdateCountryPreference(country) ==
    /\ UiShown
    /\ preferredCountry' = country
    /\ prefs' = [prefs EXCEPT !.preferredCountry = country]
    /\ IF weather # NoWeather
       THEN Commit(updateAiInsight(Cur, weather, TRUE, "country", 0, now))
       ELSE Commit(Cur)
    /\ ev' = Event("updateCountryPreference", 0, "none")
    /\ UNCHANGED <<theme, unit, showConsent, rootClasses>>
    /\ UNCHANGED <<now, seq, ticks, geoSupported, retryVars, svcVars, viewVars>>

\* every key of localStorage is stored and every preference differs from its default
FullProfile ==
    /\ Present(storage.weather)
    /\ Present(storage.insight)
    /\ Present(storage.history)
    /\ storage.defaultLocation # NoLoc
    /\ \A k \in DOMAIN prefs : prefs[k] # NoItem
    /\ theme # "midnight"
    /\ unit # "C"
    /\ preferredCountry # "USA"
    /\ ~showConsent

\* a purge that leaves the preference keys in localStorage
DeleteUserDataCachesOnly ==
    /\ UiShown
    /\ seq < MaxLoads
    /\ Commit(Constructed(EmptyStorage))
    /\ ConstructedUi(prefs)
    /\ ev' = Event("deleteUserData", 0, IF FullProfile THEN "full" ELSE "some")
    /\ UNCHANGED <<now, seq, ticks, geoSupported, retryVars, svcVars, viewVars>>

\* deleteUserData: localStorage.clear(), then the page is loaded again
DeleteUserData ==
    /\ UiShown
    /\ seq < MaxLoads
    /\ Commit(Constructed(EmptyStorage))
    /\ ConstructedUi(EmptyPrefs)
    /\ ev' = Event("deleteUserData", 0, IF FullProfile THEN "full" ELSE "some")
    /\ UNCHANGED <<now, seq, ticks, geoSupported, retryVars, svcVars, viewVars>>

\* the page is opened with whatever localStorage holds under the preference keys
InitUi ==
    /\ now = 0
    /\ ViewIdle
    /\ RetryIdle
    /\ SvcIdle
    /\ mounted = FALSE
    /\ weather = NoWeather
    /\ loading = TRUE
    /\ error = NoError
    /\ aiInsight = NoInsight
    /\ isAiLoading = FALSE
    /\ historyEvents = NoHistory
    /\ isHistoryLoading = FALSE
    /\ defaultLocation = NoLoc
    /\ storage = EmptyStorage
    /\ geoSupported = TRUE
    /\ wxInFlight = {}
    /\ aiInFlight = {}
    /\ histInFlight = {}
    /\ geoPending = {}
    /\ revPending = {}
    /\ seq = 0
    /\ ticks = 0
    /\ ev = NoEvent
    /\ log = <<>>
    /\ prefs \in [theme : StoredThemes, tempUnit : StoredUnits,
                  consent : StoredConsents, preferredCountry : StoredCountries]
    /\ theme = themeInit(prefs)
    /\ unit = unitInit(prefs)
    /\ showConsent = showConsentInit(prefs)
    /\ preferredCountry = preferredCountryInit(prefs)
    /\ rootClasses = {}

\* the preference handlers, with as much of the loading as fills the caches:
\* a default location is set while no request is outstanding
NextUi ==
    \/ StartUp
    \/ Reload
    \/ \E req \in geoPending : GeoDenied(req)
    \/ (Outstanding = 0 /\ HandleSetDefaultLocation("A"))
    \/ \E req \in wxInFlight : FetchWeatherResolve(req)
    \/ \E req \in aiInFlight : InsightSettle(req, "text")
    \/ \E req \in histInFlight : HistorySettle(req, "events")
    \/ CycleTheme
    \/ ToggleUnit
    \/ AcceptConsent
    \/ DismissConsent
    \/ \E country \in Countries : UpdateCountryPreference(country)
    \/ DeleteUserData

SpecUi == InitUi /\ [][NextUi]_vars

(***************************************************************************)
(* Temperatures: formatTemp (App.tsx) and convert (geminiService.ts)       *)
(***************************************************************************)
\* Math.round of the fraction num / den (den > 0): halves go up
MathRound(num, den) == (2 * num + den) \div (2 * den)
MathFloor(num, den) == num \div den

\* a formatTemp that drops the fraction
formatTempFloor(n, u) ==
    IF u = "F" THEN MathFloor(9 * n + 1600, 50) ELSE MathFloor(n, 10)

\* formatTemp(celsius) under the unit u; n is celsius in tenths, so
\* (celsius * 9) / 5 + 32 is (9n + 1600) / 50
formatTemp(n, u) ==
    IF u = "F" THEN MathRound(9 * n + 1600, 50) ELSE MathRound(n, 10)

\* const unit = localStorage.getItem('tempUnit') || 'C'
promptUnit(p) == IF p.tempUnit # NoItem THEN p.tempUnit ELSE "C"

\* convert(c) in getAIInsight under the unit u
convert(n, u) ==
    IF u = "F" THEN MathRound(9 * n + 1600, 50) ELSE MathRound(n, 10)

\* the page renders a temperature
FormatTemp ==
    /\ UiShown
    /\ shown' = [value |-> formatTemp(celsius, unit), unit |-> unit]
    /\ UNCHANGED <<service, response, result, celsius, prompted>>
    /\ UNCHANGED <<now, appVars, retryVars, uiVars, viewVars>>

\* getAIInsight writes the temperature into its prompt
BuildPrompt ==
    /\ UiShown
    /\ prompted' = [value |-> convert(celsius, promptUnit(prefs)), unit |-> promptUnit(prefs)]
    /\ UNCHANGED <<service, response, result, celsius, shown>>
    /\ UNCHANGED <<now, appVars, retryVars, uiVars, viewVars>>

\* the page shows the weather of a place whose temperature is any of the
\* values within the bound; the unit is what the stored tempUnit makes it
InitTemp ==
    /\ now = 0
    /\ ViewIdle
    /\ RetryIdle
    /\ mounted = TRUE
    /\ weather = fetchWeather("A", 1)
    /\ loading = FALSE
    /\ error = NoError
    /\ aiInsight = NoInsight
    /\ isAiLoading = FALSE
    /\ historyEvents = NoHistory
    /\ isHistoryLoading = FALSE
    /\ defaultLocation = NoLoc
    /\ storage = setCache(EmptyStorage, "weather", weather, 0)
    /\ geoSupported = TRUE
    /\ wxInFlight = {}
    /\ aiInFlight = {}
    /\ histInFlight = {}
    /\ geoPending = {}
    /\ revPending = {}
    /\ seq = 1
    /\ ticks = 0
    /\ ev = Event("fetchWeather", 1, "resolved")
    /\ log = <<>>
    /\ theme = "midnight"
    /\ rootClasses = {theme}
    /\ showConsent = TRUE
    /\ preferredCountry = "USA"
    /\ \E u \in StoredUnits : prefs = [EmptyPrefs EXCEPT !.theme = theme, !.tempUnit = u]
    /\ unit = unitInit(prefs)
    /\ service = "none"
    /\ response = NoResponse
    /\ result = NoResult
    /\ celsius \in (0 - MaxTenths)..MaxTenths
    /\ shown = NoTemp
    /\ prompted = NoTemp

NextTemp ==
    \/ FormatTemp
    \/ BuildPrompt
    \/ ToggleUnit

SpecTemp == InitTemp /\ [][NextTemp]_vars

(***************************************************************************)
(* The exported functions of services/geminiService.ts, each around one    *)
(* withRetry(() => ai.models.generateContent(..)) call                     *)
(***************************************************************************)
Services == {"getAIInsight", "fetchDailyQuote", "fetchHistoryOnThisDay",
             "fetchNearbyPlaces", "fetchMoviesNearby"}

\* response.text: text that parses as the JSON asked for, text that does
\* not, no text
TextKinds == {"valid", "garbage", "blank"}

\* how the awaited withRetry call ended: "fail" when it rejected, else the
\* text of the response
generateContentOutcome(text) == IF settled.state = "rejected" THEN "fail" ELSE text

\* a fetchDailyQuote whose JSON.parse is not inside the try block
fetchDailyQuoteUnguarded(o) ==
    CASE o = "valid" -> "quote"
      [] o = "blank" -> "default"
      [] o = "garbage" -> "thrown"
      [] OTHER -> "fallback"

\* fetchDailyQuote: the parsed quote; the SkyCast AI quote for an empty text;
\* the Emerson quote from the catch block, which JSON.parse reaches as well
fetchDailyQuote(o) ==
    CASE o = "valid" -> "quote"
      [] o = "blank" -> "default"
      [] OTHER -> "fallback"

\* fetchNearbyPlaces: the text (or 'Exploring local ...') with the places of
\* the grounding chunks; 'Unable to load nearby ...' from the catch block
fetchNearbyPlaces(o) ==
    CASE o = "fail" -> "fallback"
      [] o = "blank" -> "default"
      [] OTHER -> "places"

\* fetchMoviesNearby: the parsed list; [] when the text is empty, does not
\* parse, or withRetry rejected
fetchMoviesNearby(o) == IF o = "valid" THEN "movies" ELSE "empty"

\* what the function f returns (or "thrown") for the outcome o
serviceReturns(f, o) ==
    CASE f = "getAIInsight" ->
            getAIInsight(NoWeather, CASE o = "fail" -> "fail"
                                      [] o = "blank" -> "blank"
                                      [] OTHER -> "text").kind
      [] f = "fetchDailyQuote" -> fetchDailyQuote(o)
      [] f = "fetchHistoryOnThisDay" ->
            fetchHistoryOnThisDay(0, CASE o = "fail" -> "fail"
                                       [] o = "valid" -> "events"
                                       [] OTHER -> "blank").kind
      [] f = "fetchNearbyPlaces" -> fetchNearbyPlaces(o)
      [] OTHER -> fetchMoviesNearby(o)

\* the awaited withRetry call has settled: the function goes on to its return
ServiceSettle(text) ==
    /\ service \in Services
    /\ pc \in {"resolved", "rejected"}
    /\ result.state = "pending"
    /\ response' = IF settled.state = "rejected" THEN response
                   ELSE [text |-> text, chunks |-> <<>>, n |-> 0]
    /\ LET kind == serviceReturns(service, generateContentOutcome(text))
       IN  result' = [state |-> IF kind = "thrown" THEN "rejected" ELSE "fulfilled",
                      kind |-> kind, items |-> <<>>]
    /\ UNCHANGED <<service, celsius, shown, prompted>>
    /\ UNCHANGED <<now, appVars, retryVars, uiVars, viewVars>>

\* a service function has been called and has called withRetry(fn)
InitService ==
    /\ now = 0
    /\ ViewIdle
    /\ retries = DefaultRetries
    /\ delay = DefaultDelay
    /\ args = [retries |-> DefaultRetries, delay |-> DefaultDelay]
    /\ pc = "fn"
    /\ calls = 1
    /\ running = 1
    /\ waits = <<>>
    /\ timerDue = 0
    /\ startAt = 0
    /\ failAt = 0
    /\ lastErr = NoErr
    /\ fnValue = "none"
    /\ settled = Pending
    /\ AppIdle
    /\ service \in Services
    /\ response = NoResponse
    /\ result = NoResult
    /\ celsius = 0
    /\ shown = NoTemp
    /\ prompted = NoTemp

NextService ==
    \/ \E v \in Values, d \in FnTimes : RetryFnResolve(v, d)
    \/ \E err \in Errors, d \in FnTimes : RetryFnReject(err, d)
    \/ RetryTick
    \/ RetryTimer
    \/ \E text \in TextKinds : ServiceSettle(text)

SpecService == InitService /\ [][NextService]_vars

(***************************************************************************)
(* The news functions of the earlier versions of the generative-AI client  *)
(***************************************************************************)
NewsFunctions == {"fetchWeatherNews", "getAIIntelligence", "fetchWeatherNewsStructured"}

\* a grounding chunk: whether it has a web part, and the uri of that part:
\* none, a string new URL() rejects, a URL
ChunkKinds ==
    {c \in [web : BOOLEAN, uri : {"none", "bad", "ok"}] : ~c.web => c.uri = "none"}

\* the sequences over S of length at most n
RECURSIVE SeqsUpTo(_, _)
SeqsUpTo(S, n) ==
    IF n = 0 THEN {<<>>}
    ELSE LET shorter == SeqsUpTo(S, n - 1)
         IN  shorter \cup {Append(q, x) : q \in {r \in shorter : Len(r) = n - 1}, x \in S}

\* what generateContent may resolve with: the text, the grounding chunks, and
\* the number of objects in the text when it parses as a JSON array
Responses ==
    {r \in [text : TextKinds, chunks : SeqsUpTo(ChunkKinds, MaxChunks), n : 0..MaxChunks] :
        r.text # "valid" => r.n = 0}

\* a NewsItem, by where its url comes from: the uri of chunk number at
\* ("chunk"), undefined, the string '#' ("hash"), or the text of the model
NewsItem(src, at) == [src |-> src, at |-> at]

\* Array.prototype.slice(0, 4)
slice4(items) == SubSeq(items, 1, IF Len(items) < 4 THEN Len(items) ELSE 4)

\* the items the callback of forEach / map pushes for the chunks from number i on
RECURSIVE pushed(_, _, _)
pushed(f, chunks, i) ==
    IF i > Len(chunks) THEN <<>>
    ELSE LET chunk == chunks[i]
             item ==
                CASE f = "fetchWeatherNews" ->
                        IF chunk.uri # "none" THEN <<NewsItem("chunk", i)>> ELSE <<>>
                  [] f = "getAIIntelligence" ->
                        IF chunk.web
                        THEN <<NewsItem(IF chunk.uri = "none" THEN "undefined" ELSE "chunk", i)>>
                        ELSE <<>>
                  [] OTHER ->
                        <<NewsItem(IF chunk.uri = "none" THEN "hash" ELSE "chunk", i)>>
         IN  item \o pushed(f, chunks, i + 1)

\* new URL(uri) throws for one of the chunks
newURLThrows(chunks) == \E i \in 1..Len(chunks) : chunks[i].uri = "bad"

\* fetchWeatherNews of part_001, when generateContent has resolved with r
fetchWeatherNews(r) ==
    IF newURLThrows(r.chunks) THEN <<>>
    ELSE slice4(pushed("fetchWeatherNews", r.chunks, 1))

\* getAIIntelligence of part_002, when withRetry has resolved with r
getAIIntelligence(r) == slice4(pushed("getAIIntelligence", r.chunks, 1))

\* fetchWeatherNews of part_003, when generateContent has resolved with r:
\* the parsed text as it is; the chunks when the text does not parse
fetchWeatherNewsStructured(r) ==
    CASE r.text = "valid" -> [k \in 1..r.n |-> NewsItem("text", k)]
      [] r.text = "blank" -> <<>>
      [] OTHER -> IF newURLThrows(r.chunks) THEN <<>>
                  ELSE slice4(pushed("fetchWeatherNewsStructured", r.chunks, 1))

\* generateContent has resolved: the function builds its list
NewsResolve ==
    /\ service \in NewsFunctions
    /\ result.state = "pending"
    /\ result' = [state |-> "fulfilled", kind |-> "news",
                  items |-> CASE service = "fetchWeatherNews" -> fetchWeatherNews(response)
                              [] service = "getAIIntelligence" -> getAIIntelligence(response)
                              [] OTHER -> fetchWeatherNewsStructured(response)]
    /\ UNCHANGED <<service, response, celsius, shown, prompted>>
    /\ UNCHANGED <<now, appVars, retryVars, uiVars, viewVars>>

\* generateContent has rejected: the catch block returns []
NewsReject ==
    /\ service \in NewsFunctions
    /\ result.state = "pending"
    /\ result' = [state |-> "fulfilled", kind |-> "empty", items |-> <<>>]
    /\ UNCHANGED <<service, response, celsius, shown, prompted>>
    /\ UNCHANGED <<now, appVars, retryVars, uiVars, viewVars>>

\* a news function has been called; response is what generateContent will
\* resolve with if it resolves
InitNews ==
    /\ now = 0
    /\ ViewIdle
    /\ RetryIdle
    /\ AppIdle
    /\ service \in NewsFunctions
    /\ response \in Responses
    /\ result = NoResult
    /\ celsius = 0
    /\ shown = NoTemp
    /\ prompted = NoTemp

NextNews ==
    \/ NewsResolve
    \/ NewsReject

SpecNews == InitNews /\ [][NextNews]_vars

(***************************************************************************)
(* Claims about the cache layer of the App                                 *)
(***************************************************************************)

\* the calls of fn that the handler or continuation that ran last has made
CallsOf(fn) == {i \in 1..Len(log) : log[i].fn = fn}

\* the fetchWeather calls in flight that the call r of loadWeather started
FetchesOf(r) == {q \in wxInFlight : q.id = ev.id /\ q.via = r.via /\ q.loc = r.loc}

\* the cache entry a call saw is no older than ttl would allow
Younger(r, ttl) == r.entry.kind = "json" /\ r.at - r.entry.timestamp < ttl

\* C1: loadWeather shows the cached weather and calls fetchWeather not at all
\* if and only if forceRefresh is false, a weather cache entry exists, it is
\* younger than 15 minutes and its latitude and longitude are both within
\* 0.05 degrees of the requested ones; otherwise it calls fetchWeather exactly
\* once. handleSelectLocation and handleSetDefaultLocation pass forceRefresh =
\* true and never serve the cache.
C1_CacheServedIff ==
    \A i \in CallsOf("loadWeather") :
        LET r == log[i]
            near == /\ Abs(Lat(r.entry.data.loc) - Lat(r.loc)) < 5
                    /\ Abs(Lon(r.entry.data.loc) - Lon(r.loc)) < 5
            hit == ~r.force /\ Younger(r, 15 * 60 * 1000) /\ near
        IN  /\ r.served <=> hit
            /\ r.served => (FetchesOf(r) = {} /\ r.fetches = 0 /\ weather = r.entry.data)
            /\ ~r.served => (Cardinality(FetchesOf(r)) = 1 /\ r.fetches = 1)
            /\ r.via \in {"select", "setDefault"} => (r.force /\ ~r.served)

C1_Witness ==
    \E i \in CallsOf("loadWeather") :
        /\ log[i].served
        /\ log[i].entry.data.loc # log[i].loc
        /\ weather = log[i].entry.data

\* C2: the weather cache entry changes only when a fetchWeather call has
\* resolved, and then holds the fetched data; when fetchWeather rejects, the
\* entry and the displayed weather stay as they are, the error message is
\* set and loading is false.
C2_WeatherCacheOnlyOnSuccess ==
    [][ /\ (storage'.weather # storage.weather) =>
              /\ ev' = Event("fetchWeather", ev'.id, "resolved")
              /\ storage'.weather = [kind |-> "json", data |-> weather', timestamp |-> now]
              /\ weather'.id = ev'.id
        /\ (ev' = Event("fetchWeather", ev'.id, "rejected")) =>
              /\ storage'.weather = storage.weather
              /\ weather' = weather
              /\ error' = FetchError
              /\ loading' = FALSE
      ]_vars

C2_Witness ==
    /\ ev = Event("fetchWeather", ev.id, "rejected")
    /\ Present(storage.weather)
    /\ weather # NoWeather
    /\ error = FetchError
    /\ ~loading

\* C3: when the AI call behind getAIInsight or fetchHistoryOnThisDay has
\* failed, a previously cached insight or history entry stays in place, payload
\* and timestamp.
C3_AiCachesOnlyOnSuccess ==
    [][ /\ (ev' = Event("getAIInsight", ev'.id, "fail") /\ Present(storage.insight)) =>
              storage'.insight = storage.insight
        /\ (ev' = Event("fetchHistoryOnThisDay", ev'.id, "fail") /\ Present(storage.history)) =>
              storage'.history = storage.history
      ]_vars

\* the requests in flight that a call of updateAiInsight / updateHistory started
InsightFetchesOf(r) == {q \in aiInFlight : q.id = ev.id /\ q.via = r.via}
HistoryFetchesOf(r) == {q \in histInFlight : q.id = ev.id /\ q.via = r.via}

\* C4: updateAiInsight(data, false) shows the cached insight and makes no AI
\* call if and only if an insight entry younger than 15 minutes exists;
\* updateHistory(false) shows the cached events and makes no AI call if and
\* only if a history entry younger than 24 hours exists.
C4_TtlChecks ==
    /\ \A i \in CallsOf("updateAiInsight") :
          LET r == log[i] IN
          ~r.force =>
              /\ r.served <=> Younger(r, 15 * 60 * 1000)
              /\ r.served => (aiInsight = r.entry.data /\ InsightFetchesOf(r) = {})
              /\ ~r.served => Cardinality(InsightFetchesOf(r)) = 1
    /\ \A i \in CallsOf("updateHistory") :
          LET r == log[i] IN
          ~r.force =>
              /\ r.served <=> Younger(r, 24 * 60 * 60 * 1000)
              /\ r.served => (historyEvents = r.entry.data /\ HistoryFetchesOf(r) = {})
              /\ ~r.served => Cardinality(HistoryFetchesOf(r)) = 1

\* an insight entry exactly 15 minutes old is not served
C4_Witness ==
    \E i \in CallsOf("updateAiInsight") :
        /\ ~log[i].force
        /\ log[i].entry.kind = "json"
        /\ log[i].at - log[i].entry.timestamp = 15 * 60 * 1000
        /\ ~log[i].served

\* a history entry exactly 24 hours old is not served
C4_WitnessHistory ==
    \E i \in CallsOf("updateHistory") :
        /\ ~log[i].force
        /\ log[i].entry.kind = "json"
        /\ log[i].at - log[i].entry.timestamp = 24 * 60 * 60 * 1000
        /\ ~log[i].served

\* a history entry older than the weather TTL and younger than its own is served
C4_WitnessServed ==
    \E i \in CallsOf("updateHistory") :
        /\ log[i].served
        /\ log[i].at - log[i].entry.timestamp >= 15 * 60 * 1000

\* C5: on every path of loadWeather, a history entry younger than 24 hours is
\* shown and fetchHistoryOnThisDay is not called.
C5_HistoryServedWhileFresh ==
    \A i \in CallsOf("updateHistory") :
        Younger(log[i], 24 * 60 * 60 * 1000) =>
            (log[i].served /\ HistoryFetchesOf(log[i]) = {})

\* what the component shows for a cache key
Shown(key) ==
    CASE key = "weather" -> weather
      [] key = "insight" -> aiInsight
      [] OTHER -> historyEvents

\* the continuation that writes a cache key
Writer(key) ==
    CASE key = "weather" -> "fetchWeather"
      [] key = "insight" -> "getAIInsight"
      [] OTHER -> "fetchHistoryOnThisDay"

\* the cache key a function reads
KeyOf(fn) ==
    CASE fn = "loadWeather" -> "weather"
      [] fn = "updateAiInsight" -> "insight"
      [] OTHER -> "history"

\* C6: a cache entry changes only in the continuation that writes it, which
\* stores the payload with the time of the write; every other step leaves
\* payload and timestamp alone, and a call that served an entry leaves it as it
\* found it, so the timestamp of an entry is the time its data was last written.
C6_TimestampIsWriteTime ==
    /\ [][ \A k \in CacheKeys :
              storage'[k] # storage[k] =>
                  /\ ev'.op = Writer(k)
                  /\ storage'[k].kind = "json"
                  /\ storage'[k].data = Shown(k)'
                  /\ storage'[k].timestamp = now'
         ]_vars
    /\ [](\A i \in 1..Len(log) : log[i].served => storage[KeyOf(log[i].fn)] = log[i].entry)
    /\ [](\A k \in CacheKeys : Present(storage[k]) => storage[k].timestamp <= now)

\* an entry is served some time after it was written and is as it was
C6_Witness ==
    \E i \in CallsOf("updateAiInsight") :
        /\ log[i].served
        /\ log[i].at > log[i].entry.timestamp
        /\ storage.insight = log[i].entry

(***************************************************************************)
(* Claims about withRetry                                                  *)
(***************************************************************************)

\* the status the catch block looks at, as the claims word it: error.status,
\* or error.error.status when error.status is absent or zero
ErrStatus(e) == IF e.status \in {Undefined, 0} THEN e.inner ELSE e.status
Retryable(e) == ErrStatus(e) \in {503, 504, 429}
Failed == lastErr # NoErr

\* C7: fn is called again after a failure only when the status of the error
\* is 503, 504 or 429 and retries are left; after an error with any other
\* status, or none, withRetry rejects with that error at once: no timer is
\* set, no time passes and fn is not called again.
C7_RetryOnlyOnTransient ==
    /\ (pc = "sleep") => (Failed /\ Retryable(lastErr) /\ retries > 0)
    /\ (pc = "fn" /\ calls > 1) => (Failed => Retryable(lastErr))
    /\ (Failed /\ ~Retryable(lastErr)) =>
          /\ pc = "rejected"
          /\ settled = [state |-> "rejected", val |-> "none", err |-> lastErr]
          /\ running = 0
          /\ Len(waits) = calls - 1
          /\ now = failAt
    /\ calls = 1 + Len(waits)

C7_Witness ==
    /\ pc = "rejected"
    /\ calls = 1
    /\ args.retries = DefaultRetries
    /\ lastErr = [status |-> 500, inner |-> 503]

C7_WitnessRetried ==
    /\ pc = "fn"
    /\ calls = 2
    /\ lastErr = [status |-> Undefined, inner |-> 429]

RECURSIVE Pow2(_)
Pow2(n) == IF n = 0 THEN 1 ELSE 2 * Pow2(n - 1)

\* C8: every retry is preceded by one wait, the i-th wait is the initial
\* delay times 2^(i-1), a call of fn after the first starts no earlier than
\* the previous failure plus the wait, and at most one call of fn is in
\* flight.
C8_ExponentialBackoff ==
    /\ Len(waits) = calls - 1
    /\ \A i \in 1..Len(waits) : waits[i] = args.delay * Pow2(i - 1)
    /\ \A i \in 2..Len(waits) : waits[i] = 2 * waits[i - 1]
    /\ (pc = "fn" /\ calls > 1) => startAt >= failAt + waits[Len(waits)]
    /\ running \in {0, 1}
    /\ (running = 1) <=> (pc = "fn")
    /\ (pc = "sleep") => timerDue = failAt + delay

C8_Witness ==
    /\ args = [retries |-> DefaultRetries, delay |-> DefaultDelay]
    /\ waits = <<1000, 2000, 4000>>
    /\ pc = "fn"

Done == pc \in {"resolved", "rejected"}

C9_Bounded ==
    /\ calls <= args.retries + 1
    /\ retries = args.retries - (calls - 1)
    /\ (pc = "rejected" /\ Retryable(lastErr)) =>
          /\ calls = args.retries + 1
          /\ settled = [state |-> "rejected", val |-> "none", err |-> lastErr]
    /\ (pc = "rejected") => settled.err = lastErr

\* C9: fn is called at most retries + 1 times; when the last failure was a
\* transient one and withRetry rejected, fn was called exactly retries + 1
\* times and the rejection carries the error of the last call; and every
\* withRetry settles.
C9_BoundedAndTerminates == []C9_Bounded /\ <>Done

C9_Witness ==
    /\ pc = "rejected"
    /\ args.retries = DefaultRetries
    /\ calls = DefaultRetries + 1
    /\ Retryable(lastErr)

\* C10: once fn has succeeded withRetry is fulfilled with that value, after
\* any number of failures before it, and nothing happens afterwards: fn is
\* not called again.
C10_FirstSuccessWins ==
    /\ [](fnValue # "none" =>
            /\ pc = "resolved"
            /\ running = 0
            /\ settled = [state |-> "fulfilled", val |-> fnValue, err |-> NoErr])
    /\ [][pc = "resolved" => UNCHANGED <<retryVars>>]_vars
    /\ [][fnValue # "none" => calls' = calls]_vars

C10_Witness ==
    /\ pc = "resolved"
    /\ calls = DefaultRetries + 1
    /\ args.retries = DefaultRetries
    /\ settled.val = "r2"
    /\ Failed


(***************************************************************************)
(* Claims about the App's sequencing and start-up                          *)
(***************************************************************************)

\* the insight and history requests a step has issued
NewSecondary == (aiInFlight' \ aiInFlight) \cup (histInFlight' \ histInFlight)

\* C11: a call of loadWeather issues the weather fetch first and no secondary
\* call (insight, history) with it; the secondary calls are issued only in the
\* step in which a fetched weather has been set as the displayed weather (the
\* fetch of this load is no longer in flight, and an insight call is for the
\* displayed data); when fetchWeather rejects, no secondary call is issued.
C11_SecondaryAfterWeather ==
    [][ /\ \A q \in NewSecondary :
              /\ weather' # NoWeather
              /\ storage'.weather.kind = "json"
              /\ storage'.weather.data = weather'
              /\ ~ \E r \in wxInFlight' : r.id = q.id /\ r.via = q.via
        /\ \A q \in aiInFlight' \ aiInFlight : q.data = weather'
        /\ \A r \in wxInFlight' \ wxInFlight :
              ~ \E q \in NewSecondary : q.id = r.id /\ q.via = r.via
        /\ (ev' = Event("fetchWeather", ev'.id, "rejected")) => NewSecondary = {}
      ]_vars

\* a fetch has resolved and both secondary calls of that load are in flight
C11_Witness ==
    /\ ev = Event("fetchWeather", ev.id, "resolved")
    /\ weather.id = ev.id
    /\ \E q \in aiInFlight : q.id = ev.id /\ q.data = weather
    /\ \E q \in histInFlight : q.id = ev.id

\* a fetch has been rejected while weather was on display: nothing was issued
C11_WitnessRejected ==
    /\ ev = Event("fetchWeather", ev.id, "rejected")
    /\ weather # NoWeather
    /\ aiInFlight = {}
    /\ histInFlight = {}


\* the location the start-up effect has loaded, NoLoc when it has loaded none
StartUpLoaded ==
    IF CallsOf("loadWeather")' = {} THEN NoLoc
    ELSE log'[CHOOSE i \in CallsOf("loadWeather")' : TRUE].loc

\* C17: at start-up the effect loads the saved default location; without one,
\* the location of a weather cache entry younger than 15 minutes; without
\* either, it asks for the browser's position. With a default location or a
\* valid weather cache entry no position is requested.
C17_StartUpPriority ==
    [][ (ev'.op = "startUp") =>
          LET entry == storage.weather
              valid == entry.kind = "json" /\ now - entry.timestamp < 15 * 60 * 1000
          IN  /\ Cardinality(CallsOf("loadWeather")') <= 1
              /\ defaultLocation # NoLoc =>
                    (StartUpLoaded = defaultLocation /\ geoPending' = {})
              /\ (defaultLocation = NoLoc /\ valid) =>
                    (StartUpLoaded = entry.data.loc /\ geoPending' = {})
              /\ (defaultLocation = NoLoc /\ ~valid) =>
                    /\ StartUpLoaded = NoLoc
                    /\ geoSupported => Cardinality(geoPending') = 1
                    /\ ~geoSupported => (geoPending' = {} /\ error' = UnsupportedError)
      ]_vars

\* start-up with a default location and a valid cache entry for another place
C17_Witness ==
    /\ ev.op = "startUp"
    /\ defaultLocation # NoLoc
    /\ storage.weather.kind = "json"
    /\ now - storage.weather.timestamp < WEATHER_TTL
    /\ storage.weather.data.loc # defaultLocation
    /\ \E i \in CallsOf("loadWeather") : log[i].loc = defaultLocation
    /\ geoPending = {}

\* start-up without a default location, served from a valid cache entry
C17_WitnessCache ==
    /\ ev.op = "startUp"
    /\ defaultLocation = NoLoc
    /\ \E i \in CallsOf("loadWeather") : log[i].served /\ log[i].loc = storage.weather.data.loc
    /\ geoPending = {}

\* start-up with an expired cache entry and no default: the position is asked for
C17_WitnessGeo ==
    /\ ev.op = "startUp"
    /\ defaultLocation = NoLoc
    /\ storage.weather.kind = "json"
    /\ geoPending # {}


(***************************************************************************)
(* Claims about the preferences                                            *)
(***************************************************************************)

\* C13: the theme is always light, dark or midnight; cycleTheme moves it
\* light -> dark -> midnight -> light, so every application changes it and
\* three applications bring back the theme they started from.
C13_CycleTheme ==
    /\ theme \in {"light", "dark", "midnight"}
    /\ [][ /\ theme' \in {"light", "dark", "midnight"}
           /\ (ev'.op = "cycleTheme") =>
                 /\ theme = "light" => theme' = "dark"
                 /\ theme = "dark" => theme' = "midnight"
                 /\ theme = "midnight" => theme' = "light"
                 /\ theme' # theme
                 /\ cycleTheme(cycleTheme(theme')) = theme
         ]_vars

\* cycleTheme has wrapped around from midnight to light
C13_Witness ==
    /\ ev.op = "cycleTheme"
    /\ theme = "light"
    /\ prefs.theme = "light"

C18_ThemeAgrees ==
    /\ mounted =>
          /\ prefs.theme = theme
          /\ rootClasses \cap {"light", "dark", "midnight"} = {theme}
    /\ ~mounted =>
          theme = IF prefs.theme \in {"light", "dark", "midnight"}
                  THEN prefs.theme ELSE "midnight"

\* the theme has been cycled: storage and root class have followed
C18_Witness ==
    /\ ev.op = "cycleTheme"
    /\ theme = "dark"
    /\ prefs.theme = "dark"
    /\ rootClasses = {"dark"}

\* a page load that has found a stored theme it does not know
C18_WitnessIgnored ==
    /\ ~mounted
    /\ prefs.theme = "sepia"
    /\ theme = "midnight"

C20_ConsentBanner ==
    /\ ~mounted => (showConsent <=> prefs.consent = NoItem)
    /\ [][ /\ (ev'.op = "acceptConsent") => (prefs'.consent # NoItem /\ ~showConsent')
           /\ (ev'.op = "dismissConsent") => (prefs' = prefs /\ ~showConsent')
           /\ (prefs.consent # NoItem /\ ev'.op # "deleteUserData") =>
                 prefs'.consent = prefs.consent
           /\ (showConsent' /\ ~showConsent) => ev'.op \in {"reload", "deleteUserData"}
           /\ (ev'.op \in {"reload", "deleteUserData"}) =>
                 (showConsent' <=> prefs'.consent = NoItem)
         ]_vars

\* the page has been loaded again with a stored consent: no banner
C20_Witness ==
    /\ ev.op = "reload"
    /\ prefs.consent = "true"
    /\ ~showConsent

\* Later has hidden the banner and nothing is stored
C20_WitnessLater ==
    /\ ev.op = "dismissConsent"
    /\ prefs.consent = NoItem
    /\ ~showConsent

\* the page has been loaded again without a stored consent: the banner is back
C20_WitnessShownAgain ==
    /\ ev.op = "reload"
    /\ seq > 0
    /\ prefs.consent = NoItem
    /\ showConsent


(***************************************************************************)
(* Claims about the temperatures                                           *)
(***************************************************************************)

\* v is the integer nearest to num / den
Nearest(v, num, den) == 2 * den * v - den <= 2 * num /\ 2 * num <= 2 * den * v + den

\* C14: for the same Celsius value and the same unit, the temperature the
\* page shows and the temperature in the AI prompt are the same number: the
\* integer nearest to c for the unit C, nearest to c * 9 / 5 + 32 for F.
C14_SameTemperature ==
    (shown.unit # "none" /\ prompted.unit = shown.unit) =>
        /\ shown.value = prompted.value
        /\ shown.unit = "C" => Nearest(shown.value, celsius, 10)
        /\ shown.unit = "F" => Nearest(shown.value, 9 * celsius + 1600, 50)

\* 2.5 C is 36.5 F, shown and prompted as 37
C14_Witness ==
    /\ celsius = 25
    /\ shown = [value |-> 37, unit |-> "F"]
    /\ prompted = shown

\* -0.5 C is shown and prompted as 0 (the half goes up)
C14_WitnessCelsius ==
    /\ celsius = 0 - 5
    /\ shown = [value |-> 0, unit |-> "C"]
    /\ prompted = shown


(***************************************************************************)
(* Claims about the service functions                                      *)
(***************************************************************************)

\* the fixed fallback of each function, as serviceReturns names it: the
\* apology, the default quote, the 'Unable to load' record, the empty list
FallbackOf(f) ==
    IF f \in {"fetchHistoryOnThisDay", "fetchMoviesNearby"} THEN "empty" ELSE "fallback"

\* C12: a service function never rejects; when its withRetry call has
\* rejected, or when the function parses the text and the text does not parse,
\* it resolves with its fixed fallback.
C12_ServicesNeverReject ==
    /\ result.state # "rejected"
    /\ (result.state = "fulfilled" /\ settled.state = "rejected") =>
          result.kind = FallbackOf(service)
    /\ (result.state = "fulfilled" /\ response.text = "garbage"
          /\ service \in {"fetchDailyQuote", "fetchHistoryOnThisDay", "fetchMoviesNearby"}) =>
          result.kind = FallbackOf(service)

\* withRetry has used up its retries and rejected; the function has resolved
C12_Witness ==
    /\ service = "fetchNearbyPlaces"
    /\ settled.state = "rejected"
    /\ calls = 4
    /\ result.state = "fulfilled"
    /\ result.kind = "fallback"

\* the quote did not parse: the function has resolved with the default quote
C12_WitnessUnparsed ==
    /\ service = "fetchDailyQuote"
    /\ response.text = "garbage"
    /\ result.state = "fulfilled"
    /\ result.kind = "fallback"


\* C16: a news function returns at most 4 items; the url of every item is
\* the uri of a grounding chunk of the response, and the items follow the order
\* of their chunks; a chunk without a web uri gives no item.
C16_NewsFromChunks ==
    (service \in NewsFunctions /\ result.state = "fulfilled") =>
        LET items == result.items
        IN  /\ Len(items) <= 4
            /\ \A k \in 1..Len(items) :
                  /\ items[k].src = "chunk"
                  /\ items[k].at \in 1..Len(response.chunks)
                  /\ response.chunks[items[k].at].uri # "none"
            /\ \A j, k \in 1..Len(items) : j < k => items[j].at < items[k].at

\* the same for the fetchWeatherNews of part_001 alone
C16_FirstVersionOnly ==
    (service = "fetchWeatherNews" /\ result.state = "fulfilled") =>
        LET items == result.items
        IN  /\ Len(items) <= 4
            /\ \A k \in 1..Len(items) :
                  /\ items[k].src = "chunk"
                  /\ response.chunks[items[k].at].uri # "none"
            /\ \A j, k \in 1..Len(items) : j < k => items[j].at < items[k].at


(***************************************************************************)
(* Claims about the default location, the position and the loader          *)
(***************************************************************************)

\* the requests and callbacks a step has started
Started ==
    (wxInFlight' \ wxInFlight) \cup (aiInFlight' \ aiInFlight)
        \cup (histInFlight' \ histInFlight) \cup (geoPending' \ geoPending)

\* C21: the stored defaultLocation is present exactly when the state
\* defaultLocation is non-null, and then they are the same location;
\* handleClearDefault leaves the displayed weather and the weather, insight
\* and history cache entries as they are: it changes none of them and starts
\* no request whose answer will replace them.
C21_DefaultLocationAgrees ==
    /\ [](storage.defaultLocation = defaultLocation)
    /\ [][ (ev'.op = "handleClearDefault") =>
              /\ weather' = weather
              /\ \A k \in {"weather", "insight", "history"} : storage'[k] = storage[k]
              /\ Started = {}
         ]_vars

\* the part of C21 about the stored entry alone
C21_StoredIffState ==
    /\ [](storage.defaultLocation = defaultLocation)
    /\ [][ /\ (ev'.op = "handleSetDefaultLocation") => defaultLocation' # NoLoc
           /\ (ev'.op = "handleClearDefault") => defaultLocation' = NoLoc
         ]_vars

(***************************************************************************)
(* The hourly chart: App.tsx 1276-1295, part_000 836-843                   *)
(***************************************************************************)

MaxPoints == 26
HoursPerDay == 24
ChartRanges == {6, 12, 24}
FirstHours == {0, 20}
Builds == {"App", "part_000"}

Max(a, b) == IF a >= b THEN a ELSE b
Min(a, b) == IF a <= b THEN a ELSE b

\* weather.hourly.time.map(...): one point per hourly time, in order; a point
\* is its place in the series and the hour of its rawDate
fullChartData(h) ==
    [i \in 1..h.n |-> [index |-> i, hour |-> (h.first + i - 1) % HoursPerDay]]

\* Array.prototype.slice(from, to) for 0 <= from: the elements at the 0-based
\* positions from .. to - 1 that exist
slice(s, from, to) == SubSeq(s, from + 1, Min(to, Len(s)))

\* Array.prototype.findIndex(d => d.rawDate.getHours() === hour), 0-based
findIndex(s, hour) ==
    IF \E i \in 1..Len(s) : s[i].hour = hour
    THEN (CHOOSE i \in 1..Len(s) :
              /\ s[i].hour = hour
              /\ \A j \in 1..(i - 1) : s[j].hour # hour) - 1
    ELSE 0 - 1

getFilteredChartData(h, range, hour) ==
    LET full == fullChartData(h)
        currentIndex == findIndex(full, hour)
        start == Max(0, currentIndex - range + 1)
    IN  IF range = 24 THEN full
        ELSE IF currentIndex = 0 - 1 THEN slice(full, 0, range)
        ELSE slice(full, start, currentIndex + 1)

\* the chartData of the earlier App: the first chartRange points
chartDataSliced(h, range) == slice(fullChartData(h), 0, range)

renderChart(b, h, range, hour) ==
    IF b = "App" THEN getFilteredChartData(h, range, hour)
    ELSE chartDataSliced(h, range)

\* a weather with n hourly points is displayed
LoadSeries(n, first) ==
    /\ hourlyTime' = [n |-> n, first |-> first]
    /\ chartData' = renderChart(build, hourlyTime', chartRange, nowHour)
    /\ UNCHANGED <<now, retryVars, appVars, uiVars, svcVars>>
    /\ UNCHANGED <<nowHour, chartRange, build, codes, dismissedAlerts, activeAlerts>>

\* one of the buttons 6H, 12H, 24H
SetChartRange(range) ==
    /\ chartRange' = range
    /\ chartData' = renderChart(build, hourlyTime, range, nowHour)
    /\ UNCHANGED <<now, retryVars, appVars, uiVars, svcVars>>
    /\ UNCHANGED <<hourlyTime, nowHour, build, codes, dismissedAlerts, activeAlerts>>

\* a render in the next hour of the day
HourPasses ==
    /\ nowHour' = (nowHour + 1) % HoursPerDay
    /\ chartData' = renderChart(build, hourlyTime, chartRange, nowHour')
    /\ UNCHANGED <<now, retryVars, appVars, uiVars, svcVars>>
    /\ UNCHANGED <<hourlyTime, chartRange, build, codes, dismissedAlerts, activeAlerts>>

InitChart ==
    /\ now = 0
    /\ RetryIdle
    /\ AppIdle
    /\ SvcIdle
    /\ hourlyTime = [n |-> 0, first |-> 0]
    /\ nowHour = 0
    /\ chartRange = 24
    /\ chartData = <<>>
    /\ build \in Builds
    /\ codes = NoCodes
    /\ dismissedAlerts = {}
    /\ activeAlerts = <<>>

NextChart ==
    \/ \E n \in 0..MaxPoints, first \in FirstHours : LoadSeries(n, first)
    \/ \E range \in ChartRanges : SetChartRange(range)
    \/ HourPasses

SpecChart == InitChart /\ [][NextChart]_vars

\* the shown points are consecutive points of the series, in its order
Contiguous ==
    \A i \in 1..Len(chartData) :
        /\ chartData[i] = fullChartData(hourlyTime)[chartData[i].index]
        /\ i > 1 => chartData[i].index = chartData[i - 1].index + 1

\* C22: with the range 6H or 12H the chart shows exactly 6 or 12 consecutive
\* hourly points whenever the series has that many, with 24H it shows the
\* whole series, and the shown points are always a contiguous part of the
\* series in its order.
C22_ChartRange ==
    /\ (chartRange \in {6, 12} /\ hourlyTime.n >= chartRange) => Len(chartData) = chartRange
    /\ chartRange = 24 => chartData = fullChartData(hourlyTime)
    /\ Contiguous

\* what does hold of both Apps: a contiguous part of at most chartRange
\* points (the App of App.tsx shows the whole series for 24H)
C22_AtMostRange ==
    /\ Contiguous
    /\ chartRange \in {6, 12} => Len(chartData) <= chartRange
    /\ (build = "App" /\ chartRange = 24) => chartData = fullChartData(hourlyTime)
    /\ build = "part_000" => Len(chartData) = Min(chartRange, hourlyTime.n)

(***************************************************************************)
(* Claims about the position callbacks                                     *)
(***************************************************************************)

\* the loadWeather calls of the step, as <<via, loc, force>>
LoadsOfStep == {<<log'[i].via, log'[i].loc, log'[i].force>> : i \in CallsOf("loadWeather")'}

\* C23: when the position is denied, handleGeolocation loads the saved
\* default location if there is one, and otherwise sets the error 'Location
\* permission denied.' and loading to false; when the position is granted,
\* the weather of the reported coordinates is loaded only once reverse
\* geocoding has resolved.
C23_PositionCallbacks ==
    [][ /\ (ev'.op = "geoDenied" /\ defaultLocation # NoLoc) =>
              LoadsOfStep = {<<"geoDenied", defaultLocation, FALSE>>}
        /\ (ev'.op = "geoDenied" /\ defaultLocation = NoLoc) =>
              /\ LoadsOfStep = {}
              /\ error' = DeniedError
              /\ loading' = FALSE
        /\ (ev'.op = "geoSuccess") =>
              /\ LoadsOfStep = {}
              /\ wxInFlight' = wxInFlight
              /\ weather' = weather
              /\ Cardinality(revPending') = Cardinality(revPending) + 1
        /\ \A c \in LoadsOfStep :
              c[1] = "geo" =>
                  /\ ev'.op = "reverseGeocode"
                  /\ ev'.outcome = "resolved"
                  /\ \E r \in revPending \ revPending' : r.id = ev'.id /\ r.loc = c[2]
        /\ (ev'.op = "reverseGeocode" /\ ev'.outcome = "rejected") =>
              (LoadsOfStep = {} /\ wxInFlight' = wxInFlight /\ weather' = weather)
      ]_vars

(***************************************************************************)
(* The alerts: part_000 589-620, 947-960                                   *)
(***************************************************************************)

HourlyLen == 13
DailyLen == 3
ImmediateHours == 12
Storm == [type |-> "danger", title |-> "Neural Storm Warning"]
Critical == [type |-> "danger", title |-> "Critical Precipitation"]
Escalation == [type |-> "warning", title |-> "Atmospheric Escalation"]
AlertTitles == {Storm.title, Critical.title, Escalation.title}

\* the weather codes a loaded weather may carry: clear everywhere but for one
\* hour and one day
CurrentCodes == {0, 82, 95}
HourlyCodes == {0, 86, 94, 96}
DailyCodes == {0, 65, 75}
Spike(len, at, c) == [i \in 1..len |-> IF i = at THEN c ELSE 0]
LoadedCodes ==
    { [current |-> c, hourly |-> Spike(HourlyLen, hp, hc), daily |-> Spike(DailyLen, dp, dc)] :
        c \in CurrentCodes, hp \in {ImmediateHours, ImmediateHours + 1}, hc \in HourlyCodes,
        dp \in {1, 2}, dc \in DailyCodes }

some(s, P(_)) == \E i \in 1..Len(s) : P(s[i])
IsStorm(c) == c >= 95
IsViolent(c) == c = 82 \/ c = 86
IsHeavy(c) == c = 65 \/ c = 75
Listed(dismissed, a) == a.title \notin dismissed

\* an activeAlerts that pushes the two danger alerts independently
activeAlertsBoth(w, dismissed) ==
    IF w = NoCodes THEN <<>>
    ELSE LET immediateCodes == <<w.current>> \o slice(w.hourly, 0, ImmediateHours)
             storm == IF some(immediateCodes, IsStorm) THEN <<Storm>> ELSE <<>>
             violent == IF some(immediateCodes, IsViolent) THEN <<Critical>> ELSE <<>>
             warning == IF some(slice(w.daily, 1, Len(w.daily)), IsHeavy)
                        THEN <<Escalation>> ELSE <<>>
         IN  SelectSeq(storm \o violent \o warning, LAMBDA a : Listed(dismissed, a))

\* the useMemo of activeAlerts
activeAlertsOf(w, dismissed) ==
    IF w = NoCodes THEN <<>>
    ELSE LET immediateCodes == <<w.current>> \o slice(w.hourly, 0, ImmediateHours)
             danger == IF some(immediateCodes, IsStorm) THEN <<Storm>>
                       ELSE IF some(immediateCodes, IsViolent) THEN <<Critical>>
                       ELSE <<>>
             warning == IF some(slice(w.daily, 1, Len(w.daily)), IsHeavy)
                        THEN <<Escalation>> ELSE <<>>
         IN  SelectSeq(danger \o warning, LAMBDA a : Listed(dismissed, a))

\* the weather of a location is displayed
LoadCodes(w) ==
    /\ codes' = w
    /\ activeAlerts' = activeAlertsOf(w, dismissedAlerts)
    /\ UNCHANGED <<now, retryVars, appVars, uiVars, svcVars>>
    /\ UNCHANGED <<hourlyTime, nowHour, chartRange, chartData, build, dismissedAlerts>>

\* the close button of the i-th listed alert
DismissAlert(i) ==
    /\ i \in 1..Len(activeAlerts)
    /\ dismissedAlerts' = dismissedAlerts \cup {activeAlerts[i].title}
    /\ activeAlerts' = activeAlertsOf(codes, dismissedAlerts')
    /\ UNCHANGED <<now, retryVars, appVars, uiVars, svcVars>>
    /\ UNCHANGED <<hourlyTime, nowHour, chartRange, chartData, build, codes>>

InitAlerts ==
    /\ now = 0
    /\ RetryIdle
    /\ AppIdle
    /\ SvcIdle
    /\ ViewIdle

NextAlerts ==
    \/ \E w \in LoadedCodes : LoadCodes(w)
    \/ \E i \in 1..2 : DismissAlert(i)

SpecAlerts == InitAlerts /\ [][NextAlerts]_vars

\* the current code and the first 12 hourly codes
Immediate == {codes.current} \cup {codes.hourly[i] : i \in 1..Min(12, Len(codes.hourly))}
AfterToday == {codes.daily[i] : i \in 2..Len(codes.daily)}
ListedAlerts == {activeAlerts[i] : i \in 1..Len(activeAlerts)}

C24_WitnessDismissed ==
    /\ Storm.title \in dismissedAlerts
    /\ codes.current = 95
    /\ activeAlerts = <<>>

(***************************************************************************)
(* Cache entries the App has not written                                   *)
(***************************************************************************)

\* what setCache would have stored under a key
JsonData(key) ==
    CASE key = "weather" -> [loc |-> "B", id |-> 0]
      [] key = "insight" -> getAIInsight([loc |-> "B", id |-> 0], "text")
      [] OTHER -> fetchHistoryOnThisDay(0, "events")

\* a stored item of a kind, found when the page is opened at time 0
StoredItem(kind, key) ==
    CASE kind = "absent" -> EmptyStorage[key]
      [] kind = "json" -> [kind |-> "json", data |-> JsonData(key), timestamp |-> 0]
      [] kind = "nodata" -> [kind |-> "nodata", data |-> UndefinedData(key), timestamp |-> 0]
      [] OTHER -> [kind |-> kind, data |-> UndefinedData(key), timestamp |-> Undefined]

InitCache ==
    /\ now = 0
    /\ ViewIdle
    /\ RetryIdle
    /\ SvcIdle
    /\ UiFirstVisit
    /\ \E w \in StoredKinds, i \in StoredKinds, h \in StoredKinds, d \in {NoLoc, "A"} :
          /\ storage = [weather |-> StoredItem(w, "weather"),
                        insight |-> StoredItem(i, "insight"),
                        history |-> StoredItem(h, "history"),
                        defaultLocation |-> d]
          /\ defaultLocation = d
    /\ mounted = FALSE
    /\ weather = NoWeather
    /\ loading = TRUE
    /\ error = NoError
    /\ aiInsight = NoInsight
    /\ isAiLoading = FALSE
    /\ historyEvents = NoHistory
    /\ isHistoryLoading = FALSE
    /\ geoSupported = TRUE
    /\ wxInFlight = {}
    /\ aiInFlight = {}
    /\ histInFlight = {}
    /\ geoPending = {}
    /\ revPending = {}
    /\ seq = 0
    /\ ticks = 0
    /\ ev = NoEvent
    /\ log = <<>>

NextCache ==
    \/ StartUp
    \/ \E req \in geoPending : GeoSuccess(req, "B")
    \/ \E req \in geoPending : GeoDenied(req)
    \/ \E r \in revPending : RevGeoResolve(r)
    \/ \E req \in wxInFlight : FetchWeatherResolve(req)
    \/ \E req \in wxInFlight : FetchWeatherReject(req)
    \/ \E req \in aiInFlight : InsightSettle(req, "text")
    \/ \E req \in histInFlight : HistorySettle(req, "events")

SpecCache == InitCache /\ [][NextCache]_vars

\* the calls of the last step that read an entry setCache has not written
ReadMalformed ==
    {i \in 1..Len(log) : ~log[i].force /\ log[i].entry.kind # "json"}

\* C25: a stored cache entry that is missing, is not valid JSON, or is valid
\* JSON without the shape {data, timestamp} is a cache miss: getCache and its
\* callers updateAiInsight, updateHistory and loadWeather never raise and go
\* on to the network fetch.
C25_MalformedIsMiss ==
    /\ \A i \in 1..Len(log) : log[i].fn # "TypeError"
    /\ \A i \in ReadMalformed : ~log[i].served /\ log[i].fetches = 1

\* what does hold: a missing entry, text that is not JSON, and JSON without a
\* timestamp are misses
C25_NoTimestampIsMiss ==
    \A i \in ReadMalformed :
        log[i].entry.kind # "nodata" =>
            (log[i].fn # "TypeError" /\ ~log[i].served /\ log[i].fetches = 1)

(***************************************************************************)
(* Overlapping loads: App.tsx 1104-1159, 1209-1213                         *)
(***************************************************************************)

\* the place the user picks in the k-th search: A, then B, then A again
PickedAt(k) == IF k % 2 = 1 THEN "A" ELSE "B"

\* handleSelectLocation, clicked whatever is still in flight
SelectLocation(loc) ==
    /\ UiShown
    /\ seq < MaxLoads
    /\ Commit(loadWeather(Cur, loc, TRUE, "select", seq + 1, now))
    /\ seq' = seq + 1
    /\ ev' = Event("handleSelectLocation", seq + 1, "none")
    /\ UNCHANGED <<now, ticks, geoSupported, retryVars, uiVars, svcVars, viewVars>>

\* the App shows the weather of C, loaded and cached with its insight and
\* history when the page was opened
InitRace ==
    /\ now = 0
    /\ ViewIdle
    /\ RetryIdle
    /\ SvcIdle
    /\ UiFirstVisit
    /\ mounted = TRUE
    /\ weather = fetchWeather("C", 0)
    /\ loading = FALSE
    /\ error = NoError
    /\ aiInsight = getAIInsight(weather, "text")
    /\ isAiLoading = FALSE
    /\ historyEvents = fetchHistoryOnThisDay(0, "events")
    /\ isHistoryLoading = FALSE
    /\ defaultLocation = NoLoc
    /\ storage = setCache(setCache(setCache(EmptyStorage, "weather", weather, 0),
                                   "insight", aiInsight, 0), "history", historyEvents, 0)
    /\ geoSupported = TRUE
    /\ wxInFlight = {}
    /\ aiInFlight = {}
    /\ histInFlight = {}
    /\ geoPending = {}
    /\ revPending = {}
    /\ seq = 0
    /\ ticks = 0
    /\ ev = NoEvent
    /\ log = <<>>

NextRace ==
    \/ SelectLocation(PickedAt(seq + 1))
    \/ \E req \in wxInFlight : FetchWeatherResolve(req)
    \/ \E req \in wxInFlight : FetchWeatherReject(req)
    \/ \E req \in aiInFlight : InsightSettle(req, "text")
    \/ \E req \in histInFlight : HistorySettle(req, "events")

SpecRace == InitRace /\ [][NextRace]_vars

\* C26: when loadWeather is called for A and then for B while the fetch of A
\* is in flight, then once both fetches have resolved, in whatever order, the
\* displayed weather and the weather cache entry are those of B, the later
\* request.
C26_LastRequestWins ==
    (seq >= 2 /\ wxInFlight = {} /\ error = NoError) =>
        /\ weather.loc = PickedAt(seq)
        /\ storage.weather.data.loc = PickedAt(seq)

\* what does hold: what is displayed is what is cached, the answer of one of
\* the requests
C26_LastResponseWins ==
    /\ storage.weather.data = weather
    /\ weather.id <= seq

\* C27: while at least one fetchWeather call is in flight loading is true,
\* and while at least one getAIInsight call is in flight isAiLoading is true,
\* also when invocations overlap.
C27_LoadingWhileInFlight ==
    /\ wxInFlight # {} => loading
    /\ aiInFlight # {} => isAiLoading

\* C29: whenever no insight request is in flight and a weather is displayed,
\* the displayed insight and the insight cache entry were generated from the
\* displayed weather, after any interleaving of loads and settlements.
C29_InsightOfDisplayed ==
    (aiInFlight = {} /\ weather # NoWeather) =>
        /\ aiInsight.kind = "text" => aiInsight.of.loc = weather.loc
        /\ (Present(storage.insight) /\ storage.insight.data.kind = "text") =>
              storage.insight.data.of.loc = weather.loc

(***************************************************************************)
(* The loader: App.tsx 1011, 1161-1196, 1259-1269                          *)
(***************************************************************************)

\* a network call or a position callback that is pending settles
Settle ==
    \/ \E req \in geoPending, pos \in Locs : GeoSuccess(req, pos)
    \/ \E req \in geoPending : GeoDenied(req)
    \/ \E r \in revPending : RevGeoResolve(r)
    \/ \E r \in revPending : RevGeoReject(r)
    \/ \E req \in wxInFlight : FetchWeatherResolve(req)
    \/ \E req \in wxInFlight : FetchWeatherReject(req)
    \/ \E req \in aiInFlight, outcome \in AiOutcomes : InsightSettle(req, outcome)
    \/ \E req \in histInFlight, outcome \in HistoryOutcomes : HistorySettle(req, outcome)

NextLive ==
    \/ StartUp
    \/ HandleGeolocation
    \/ Settle

\* the effects run once the component is rendered, and every pending call
\* and callback settles
SpecLive == Init /\ [][NextLive]_vars /\ WF_vars(StartUp) /\ WF_vars(Settle)

\* C28: if every network call and position callback settles, loading
\* becomes false after start-up and after every handleGeolocation, whether
\* the position is granted, denied or unsupported and whether reverse
\* geocoding or the fetch fails: the loader does not stay for ever.
C28_LoadingEnds == loading ~> ~loading

\* what does hold: a pending fetchWeather call ends loading, and so does a
\* denied position
C28_FetchEndsLoading ==
    /\ (wxInFlight # {}) ~> ~loading
    /\ [][ (ev'.op = "geoDenied" /\ wxInFlight' = {}) => ~loading' ]_vars

(***************************************************************************)
(* The default location changed while a position request is pending        *)
(***************************************************************************)

\* the logo, clicked whatever is still pending
ClickLocate ==
    /\ UiShown
    /\ seq < MaxLoads
    /\ Commit(handleGeolocation(Cur, seq + 1))
    /\ seq' = seq + 1
    /\ ev' = Event("handleGeolocation", seq + 1, "none")
    /\ UNCHANGED <<now, ticks, geoSupported, retryVars, uiVars, svcVars, viewVars>>

\* the default button of the displayed place: handleSetDefaultLocation when
\* none is saved, handleClearDefault when one is, each with the effect its
\* setDefaultLocation triggers
ClickDefault ==
    /\ UiShown
    /\ seq < MaxLoads
    /\ LET s1 == [Cur EXCEPT !.defaultLocation = "A",
                             !.storage = [@ EXCEPT !.defaultLocation = "A"]]
           s2 == [Cur EXCEPT !.defaultLocation = NoLoc,
                             !.storage = [@ EXCEPT !.defaultLocation = NoLoc]]
       IN  IF defaultLocation = NoLoc
           THEN /\ Commit(startUpEffect(loadWeather(s1, "A", TRUE, "setDefault", seq + 1, now),
                                        seq + 1, now))
                /\ ev' = Event("handleSetDefaultLocation", seq + 1, "none")
           ELSE /\ Commit(startUpEffect(s2, seq + 1, now))
                /\ ev' = Event("handleClearDefault", seq + 1, "none")
    /\ seq' = seq + 1
    /\ UNCHANGED <<now, ticks, geoSupported, retryVars, uiVars, svcVars, viewVars>>

NextPosition ==
    \/ ClickLocate
    \/ ClickDefault
    \/ \E req \in geoPending : GeoSuccess(req, "B")
    \/ \E req \in geoPending : GeoDenied(req)
    \/ \E r \in revPending : RevGeoResolve(r)
    \/ \E r \in revPending : RevGeoReject(r)
    \/ \E req \in wxInFlight : FetchWeatherResolve(req)
    \/ \E req \in aiInFlight : InsightSettle(req, "text")
    \/ \E req \in histInFlight : HistorySettle(req, "events")

SpecPosition == InitRace /\ [][NextPosition]_vars

\* what does hold: the error callback goes by the default location that was
\* saved when handleGeolocation was called
C23_DefaultAsOfCall ==
    [][ (ev'.op = "geoDenied") =>
          \E req \in geoPending \ geoPending' :
              /\ req.id = ev'.id
              /\ req.def # NoLoc => LoadsOfStep = {<<"geoDenied", req.def, FALSE>>}
              /\ req.def = NoLoc =>
                    (LoadsOfStep = {} /\ error' = DeniedError /\ loading' = FALSE)
      ]_vars

====
